---------------------------- MODULE Spec2Model ----------------------------
(* Verification model of the pharmacy drug checker's matching engine       *)
(* (src/app/excel_matcher.py).                                             *)
(*                                                                         *)
(* Python strings are sequences of characters.  A character is written as  *)
(* an ASCII token: half-width letters and digits as themselves ("A", "a",  *)
(* "1"), full-width forms with the prefix FW_ ("FW_A" is U+FF21), circled  *)
(* numbers as "(5)", "(6)", "(12)", "(20)", and the Japanese characters of *)
(* the configured column patterns by their reading ("ko", "~", "do" are    *)
(* the three characters of the word for "code", "mei" the character for    *)
(* "name").                                                                *)
EXTENDS Integers, Sequences, FiniteSets, TLC

---------------------------------------------------------------------------
(* Bounds of the model.                                                    *)

MaxRefRows == 2
MaxPhRows == 2
MaxCols == 2
MaxLen == 3
MaxCallers == 2
MaxClock == 4
MaxChunks == 2
MaxJobs == 2

---------------------------------------------------------------------------
(* Python values held in spreadsheet cells.                                *)

Str(s) == [t |-> "str", v |-> s]
PyInt(digits) == [t |-> "int", v |-> digits]
Ts(d) == [t |-> "ts", d |-> d]
NaN == [t |-> "nan"]
NaT == [t |-> "nat"]
PyNone == [t |-> "none"]
PyFloat(digits) == [t |-> "float", v |-> digits \o <<".", "0">>]

\* pd.notna(value) on a scalar
NotNa(x) == x.t \notin {"nan", "nat", "none"}

\* Timestamp.strftime("%Y-%m-%d"): the day number stands for the calendar date
Strftime(d) == <<"y", "y", "y", "y", "-", "m", "m", "-", ToString(d)>>

\* str(value)
PyStr(x) ==
    CASE x.t = "str" -> x.v
      [] x.t = "int" -> x.v
      [] x.t = "float" -> x.v
      [] x.t = "ts" -> Strftime(x.d) \o <<" ", "0", "0", ":", "0", "0", ":", "0", "0">>
      [] x.t = "nan" -> <<"n", "a", "n">>
      [] x.t = "nat" -> <<"N", "a", "T">>
      [] x.t = "none" -> <<"N", "o", "n", "e">>

---------------------------------------------------------------------------
(* Text normalizer.                                                        *)

\* unicodedata.normalize("NFKC", c) for one character
NfkcChar(c) ==
    CASE c = "FW_A" -> <<"A">>
      [] c = "(1)" -> <<"1">>
      [] c = "(3)" -> <<"3">>
      [] c = "(4)" -> <<"4">>
      [] c = "FW_a" -> <<"a">>
      [] c = "FW_1" -> <<"1">>
      [] c = "FW_2" -> <<"2">>
      [] c = "FW_3" -> <<"3">>
      [] c = "FW_Z" -> <<"Z">>
      [] c = "FW_SP" -> <<" ">>
      [] c = "(5)" -> <<"5">>
      [] c = "(6)" -> <<"6">>
      [] c = "(12)" -> <<"1", "2">>
      [] c = "(20)" -> <<"2", "0">>
      [] c = "j_caron" -> <<"j", "caron">>
      [] OTHER -> <<c>>

RECURSIVE Decompose(_)
Decompose(s) == IF s = <<>> THEN <<>> ELSE NfkcChar(Head(s)) \o Decompose(Tail(s))

\* canonical composition: a small j followed by a combining caron (U+030C)
\* composes to U+01F0; a capital J followed by it has no composed form
RECURSIVE Compose(_)
Compose(s) ==
    IF Len(s) < 2 THEN s
    ELSE IF s[1] = "j" /\ s[2] = "caron" THEN <<"j_caron">> \o Compose(Tail(Tail(s)))
    ELSE <<Head(s)>> \o Compose(Tail(s))

\* unicodedata.normalize("NFKC", s)
Nfkc(s) == Compose(Decompose(s))

\* str.lower() for one character
LowerChar(c) ==
    CASE c = "A" -> "a"
      [] c = "B" -> "b"
      [] c = "D" -> "d"
      [] c = "H" -> "h"
      [] c = "I" -> "i"
      [] c = "J" -> "j"
      [] c = "N" -> "n"
      [] c = "O" -> "o"
      [] c = "T" -> "t"
      [] c = "Y" -> "y"
      [] c = "Z" -> "z"
      [] c = "FW_A" -> "FW_a"
      [] OTHER -> c

Lower(s) == [i \in 1..Len(s) |-> LowerChar(s[i])]

WhiteSpace == {" ", "FW_SP"}

RECURSIVE LStrip(_)
LStrip(s) == IF s # <<>> /\ Head(s) \in WhiteSpace THEN LStrip(Tail(s)) ELSE s

RECURSIVE RStrip(_)
RStrip(s) ==
    IF s # <<>> /\ s[Len(s)] \in WhiteSpace THEN RStrip(SubSeq(s, 1, Len(s) - 1)) ELSE s

\* str.strip()
Strip(s) == RStrip(LStrip(s))

\* normalize_text(text): the argument is any Python value
normalize_text(text) ==
    IF text.t # "str" THEN <<>> ELSE Strip(Lower(Nfkc(text.v)))

\* "p in s" for two strings
Contains(s, p) ==
    \E i \in 0..(Len(s) - Len(p)) : SubSeq(s, i + 1, i + Len(p)) = p

---------------------------------------------------------------------------
(* Configuration (src/app/config.py).                                      *)

DAYS_BACK == 10

KoDo == <<"ko", "~", "do">>
Mei == <<"mei">>

UPDATE_DATE_COLUMN_PATTERN == <<"(20)", "tou", "gai", "hin", "moku">>

DRUG_CODE_COLUMN_PATTERNS ==
    << <<"(5)", "Y", "J">> \o KoDo,
       <<"Y", "J">> \o KoDo,
       <<"Y", "J", "-">> \o KoDo,
       <<"Y", "J">> \o KoDo \o <<"ban", "gou">>,
       <<"i", "yaku", "hin">> \o KoDo,
       <<"i", "yaku", "hin", "ki", "~">>,
       <<"i", "yaku", "hin", "ban", "gou">>,
       <<"i", "yaku", "hin", "I", "D">>,
       <<"yaku", "hin">> \o KoDo,
       <<"yaku", "hin", "ki", "~">>,
       <<"yaku", "hin", "ban", "gou">>,
       <<"yaku", "hin", "I", "D">>,
       <<"sei", "hin">> \o KoDo,
       <<"shou", "hin">> \o KoDo,
       <<"hin", "moku">> \o KoDo,
       <<"N", "D", "B">> \o KoDo,
       <<"H", "O", "T">> \o KoDo,
       <<"J", "A", "N">> >>

DRUG_NAME_COLUMN_PATTERNS ==
    << <<"(6)", "hin", "mei">>,
       <<"i", "yaku", "hin", "mei">>,
       <<"i", "yaku", "hin", "tadashi", "shiki", "mei">>,
       <<"i", "yaku", "hin", "tadashi", "shiki", "hin", "mei">>,
       <<"yaku", "hin", "mei">>,
       <<"yaku", "hin", "tadashi", "shiki", "mei">>,
       <<"hin", "mei">>,
       <<"tadashi", "shiki", "hin", "mei">>,
       <<"sei", "hin", "mei">>,
       <<"shou", "hin", "mei">>,
       <<"sei", "hin", "tadashi", "shiki", "mei">>,
       <<"han", "bai", "mei">> >>

---------------------------------------------------------------------------
(* Column resolver.  A column label is a Python value: a string, or (after *)
(* a header row was promoted) whatever the cell held.  The result is       *)
(* [raised |-> TRUE] when the code raises, else [raised |-> FALSE,         *)
(* col |-> label or PyNone].                                               *)

Raised == [raised |-> TRUE]
Found(c) == [raised |-> FALSE, col |-> c]

RECURSIVE FirstFrom(_, _, _)
FirstFrom(n, Test(_), j) ==
    IF j > n THEN 0 ELSE IF Test(j) THEN j ELSE FirstFrom(n, Test, j + 1)

\* the first position 1..n that satisfies a test, 0 if none
FirstPos(n, Test(_)) == FirstFrom(n, Test, 1)

AnyPattern(patterns, Test(_)) == \E k \in 1..Len(patterns) : Test(patterns[k])

\* tier 1: col == pattern
ExactTier(cols, patterns) ==
    LET Hit(j) == AnyPattern(patterns, LAMBDA p : cols[j] = Str(p))
    IN  FirstPos(Len(cols), Hit)

\* tier 2: pattern.lower() in col.lower(); col.lower() raises on a non-string
SubstringTier(cols, patterns) ==
    LET Hit(j) == cols[j].t # "str"
                  \/ AnyPattern(patterns, LAMBDA p : Contains(Lower(cols[j].v), Lower(p)))
    IN  FirstPos(Len(cols), Hit)

\* tier 3: normalize_text(pattern) in normalize_text(col)
NormalizedTier(cols, patterns) ==
    LET Hit(j) == AnyPattern(patterns,
                    LAMBDA p : Contains(normalize_text(cols[j]), normalize_text(Str(p))))
    IN  FirstPos(Len(cols), Hit)

\* the code fallback demanded of every pattern instead of any pattern
CodeRelated_Every(patterns) ==
    \A k \in 1..Len(patterns) :
        Contains(Lower(patterns[k]), <<"c", "o", "d", "e">>) \/ Contains(patterns[k], KoDo)

\* tier 4: the two semantic fallbacks, code first and then name
CodeRelated(patterns) ==
    AnyPattern(patterns, LAMBDA p : Contains(Lower(p), <<"c", "o", "d", "e">>) \/ Contains(p, KoDo))

NameRelated(patterns) ==
    AnyPattern(patterns, LAMBDA p : Contains(Lower(p), <<"n", "a", "m", "e">>) \/ Contains(p, Mei))

SemanticCodeTier(cols) ==
    LET Hit(j) == Contains(cols[j].v, KoDo) \/ Contains(Lower(cols[j].v), <<"c", "o", "d", "e">>)
    IN  FirstPos(Len(cols), Hit)

SemanticNameTier(cols) ==
    LET Hit(j) == Contains(cols[j].v, Mei) \/ Contains(Lower(cols[j].v), <<"n", "a", "m", "e">>)
    IN  FirstPos(Len(cols), Hit)

\* find_column with the normalized tier tried before the substring tier
find_column_NormalizedFirst(cols, patterns) ==
    LET t1 == ExactTier(cols, patterns)
        t2 == SubstringTier(cols, patterns)
        t3 == NormalizedTier(cols, patterns)
        c4 == IF CodeRelated(patterns) THEN SemanticCodeTier(cols) ELSE 0
        n4 == IF NameRelated(patterns) THEN SemanticNameTier(cols) ELSE 0
    IN  IF t1 # 0 THEN Found(cols[t1])
        ELSE IF t3 # 0 THEN Found(cols[t3])
        ELSE IF t2 # 0
             THEN IF cols[t2].t # "str" THEN Raised ELSE Found(cols[t2])
        ELSE IF c4 # 0 THEN Found(cols[c4])
        ELSE IF n4 # 0 THEN Found(cols[n4])
        ELSE Found(PyNone)

find_column(cols, patterns) ==
    LET t1 == ExactTier(cols, patterns)
        t2 == SubstringTier(cols, patterns)
        t3 == NormalizedTier(cols, patterns)
        c4 == IF CodeRelated(patterns) THEN SemanticCodeTier(cols) ELSE 0
        n4 == IF NameRelated(patterns) THEN SemanticNameTier(cols) ELSE 0
    IN  IF t1 # 0 THEN Found(cols[t1])
        ELSE IF t2 # 0
             THEN IF cols[t2].t # "str" THEN Raised ELSE Found(cols[t2])
        ELSE IF t3 # 0 THEN Found(cols[t3])
        ELSE IF c4 # 0 THEN Found(cols[c4])
        ELSE IF n4 # 0 THEN Found(cols[n4])
        ELSE Found(PyNone)

---------------------------------------------------------------------------
(* Tables.  A table (DataFrame) is [columns |-> sequence of labels,        *)
(* rows |-> sequence of rows], a row being a sequence of cells, one per    *)
(* column.                                                                 *)

RECURSIVE SeqsUpTo(_, _)
SeqsUpTo(S, n) ==
    IF n = 0 THEN {<<>>}
    ELSE LET shorter == SeqsUpTo(S, n - 1)
         IN  shorter \cup {Append(q, x) : q \in {r \in shorter : Len(r) = n - 1}, x \in S}

RECURSIVE SelectIdx(_, _, _)
\* the positions 1..n that satisfy a test, in increasing order
SelectIdx(n, Test(_), from) ==
    IF from > n THEN <<>>
    ELSE IF Test(from) THEN <<from>> \o SelectIdx(n, Test, from + 1)
    ELSE SelectIdx(n, Test, from + 1)

\* dict position of a label: {c: i for i, c in enumerate(cols)}.get(label)
LastIndex(cols, label) ==
    IF \E j \in 1..Len(cols) : cols[j] = label
    THEN CHOOSE j \in 1..Len(cols) : cols[j] = label /\ \A k \in (j + 1)..Len(cols) : cols[k] # label
    ELSE 0

\* list.index(label)
FirstIndex(cols, label) ==
    CHOOSE j \in 1..Len(cols) : cols[j] = label /\ \A k \in 1..(j - 1) : cols[k] # label

\* truth value of a column label or None
Truthy(x) ==
    CASE x.t = "none" -> FALSE
      [] x.t = "str" -> x.v # <<>>
      [] OTHER -> TRUE

---------------------------------------------------------------------------
(* Reference table loader.                                                 *)

HeaderMarker == <<"(1)", "yaku", "zai", "ku", "bun">>

Unloaded == [loaded |-> FALSE]

\* pd.to_datetime(value, errors="coerce") for one cell
ToDatetime(x, days) ==
    CASE x.t = "ts" -> x
      [] x.t = "int" -> Ts(0)
      [] x.t = "str" -> IF \E d \in days : x.v = Strftime(d)
                        THEN Ts(CHOOSE d \in days : x.v = Strftime(d))
                        ELSE NaT
      [] OTHER -> NaT

\* promote the first row to the header when its first cell is the marker
PromoteHeader(df) ==
    IF Len(df.rows) > 0 /\ PyStr(df.rows[1][1]) = HeaderMarker
    THEN [columns |-> df.rows[1], rows |-> Tail(df.rows)]
    ELSE df

\* DataFrame.dropna(how="all")
DropEmptyRows(df) ==
    LET Keep(j) == \E c \in 1..Len(df.rows[j]) : NotNa(df.rows[j][c])
        kept == SelectIdx(Len(df.rows), Keep, 1)
    IN  [columns |-> df.columns, rows |-> [j \in 1..Len(kept) |-> df.rows[kept[j]]]]

CoerceColumn(df, idx, days) ==
    [columns |-> df.columns,
     rows |-> [j \in 1..Len(df.rows) |->
                 [c \in 1..Len(df.rows[j]) |->
                    IF c = idx THEN ToDatetime(df.rows[j][c], days) ELSE df.rows[j][c]]]]

\* _load_mhlw_data with an except clause that does not reset mhlw_df
LoadMhlwData_KeepsFrame(f, days) ==
    IF f.kind # "xlsx"
    THEN [mhlw_df |-> Unloaded, update |-> PyNone, code |-> PyNone, name |-> PyNone]
    ELSE LET df == DropEmptyRows(PromoteHeader([columns |-> f.columns, rows |-> f.rows]))
             u == find_column(df.columns, <<UPDATE_DATE_COLUMN_PATTERN>>)
             c == find_column(df.columns, DRUG_CODE_COLUMN_PATTERNS)
             n == find_column(df.columns, DRUG_NAME_COLUMN_PATTERNS)
             kept == [loaded |-> TRUE, tbl |-> df]
         IN  IF u.raised
             THEN [mhlw_df |-> kept, update |-> PyNone, code |-> PyNone, name |-> PyNone]
             ELSE IF c.raised
             THEN [mhlw_df |-> kept, update |-> u.col, code |-> PyNone, name |-> PyNone]
             ELSE IF n.raised
             THEN [mhlw_df |-> kept, update |-> u.col, code |-> c.col, name |-> PyNone]
             ELSE [mhlw_df |-> [loaded |-> TRUE,
                                tbl |-> IF Truthy(u.col)
                                        THEN CoerceColumn(df, FirstIndex(df.columns, u.col), days)
                                        ELSE df],
                   update |-> u.col, code |-> c.col, name |-> n.col]

\* the matcher fields after _load_mhlw_data on a file
LoadMhlwData(f, days) ==
    IF f.kind # "xlsx"
    THEN [mhlw_df |-> Unloaded, update |-> PyNone, code |-> PyNone, name |-> PyNone]
    ELSE LET df == DropEmptyRows(PromoteHeader([columns |-> f.columns, rows |-> f.rows]))
             u == find_column(df.columns, <<UPDATE_DATE_COLUMN_PATTERN>>)
             c == find_column(df.columns, DRUG_CODE_COLUMN_PATTERNS)
             n == find_column(df.columns, DRUG_NAME_COLUMN_PATTERNS)
         IN  IF u.raised
             THEN [mhlw_df |-> Unloaded, update |-> PyNone, code |-> PyNone, name |-> PyNone]
             ELSE IF c.raised
             THEN [mhlw_df |-> Unloaded, update |-> u.col, code |-> PyNone, name |-> PyNone]
             ELSE IF n.raised
             THEN [mhlw_df |-> Unloaded, update |-> u.col, code |-> c.col, name |-> PyNone]
             ELSE [mhlw_df |-> [loaded |-> TRUE,
                                tbl |-> IF Truthy(u.col)
                                        THEN CoerceColumn(df, FirstIndex(df.columns, u.col), days)
                                        ELSE df],
                   update |-> u.col, code |-> c.col, name |-> n.col]

---------------------------------------------------------------------------
(* Matching engine: the pure parts of match_and_filter.                    *)

Prefix5(s) == SubSeq(s, 1, IF Len(s) < 5 THEN Len(s) ELSE 5)

\* normalize_text(str(v)) if pd.notna(v) else ""
NormCell(v) == IF NotNa(v) THEN normalize_text(Str(PyStr(v))) ELSE <<>>

\* normalized key of reference row j in the column at position idx (0: no column)
RefKey(tbl, idx, j) == IF idx = 0 THEN <<>> ELSE NormCell(tbl.rows[j][idx])

\* the keys of all reference rows in one column
RefKeys(tbl, idx) == [j \in 1..Len(tbl.rows) |-> RefKey(tbl, idx, j)]

\* an index from its per-row keys (<<>> : the row is not indexed); the
\* entries are positions of reference rows, in table order
IndexOf(keys) ==
    [k \in {keys[j] : j \in 1..Len(keys)} \ {<<>>} |->
        SelectIdx(Len(keys), LAMBDA j : keys[j] = k, 1)]

\* lines 181-185
BuildCodeMap(tbl, code_idx) == IndexOf(RefKeys(tbl, code_idx))

\* lines 186-190
BuildNameMap(tbl, name_idx) == IndexOf(RefKeys(tbl, name_idx))

\* lines 191-193 without the length test
PrefixKey_NoLengthGuard(name_norm) == Prefix5(name_norm)

\* lines 191-193
PrefixKey(name_norm) == IF Len(name_norm) > 3 THEN Prefix5(name_norm) ELSE <<>>

BuildNamePrefixMap(tbl, name_idx) ==
    IndexOf([j \in 1..Len(tbl.rows) |-> PrefixKey(RefKey(tbl, name_idx, j))])

\* dict.get(key, [])
Get(map, key) == IF key \in DOMAIN map THEN map[key] ELSE <<>>

\* pd.Series(dict(zip(labels, cells))): the value stored under each label
\* (numeric rows with a missing value become floats, date rows turn a
\* missing value into NaT)
PdSeries(cells) ==
    LET types == {cells[c].t : c \in 1..Len(cells)}
    IN  [c \in 1..Len(cells) |->
           IF types = {"int", "nan"} /\ cells[c].t = "int" THEN PyFloat(cells[c].v)
           ELSE IF types \subseteq {"ts", "nat", "nan"} /\ "ts" \in types /\ cells[c].t = "nan"
                THEN NaT
           ELSE cells[c]]

\* _safe_str(value)
safe_str(value) == IF value.t \in {"none", "nan"} THEN <<>> ELSE PyStr(value)

\* the labels a formatted row keeps: truthy and not starting with "_"
KeptLabel(label) == Truthy(label) /\ ~(label.t = "str" /\ Head(label.v) = "_")

\* _format_result_row raises when a truthy label is not a string
\* (col.startswith) or a kept reference value is NaT (NaT.strftime)
FormatRaises(ph_cols, mhlw_cols, mhlw_cells) ==
    \/ \E c \in 1..Len(ph_cols) : Truthy(ph_cols[c]) /\ ph_cols[c].t # "str"
    \/ \E c \in 1..Len(mhlw_cols) : Truthy(mhlw_cols[c]) /\ mhlw_cols[c].t # "str"
    \/ \E c \in 1..Len(mhlw_cols) :
          /\ KeptLabel(mhlw_cols[c])
          /\ PdSeries(mhlw_cells)[LastIndex(mhlw_cols, mhlw_cols[c])].t = "nat"

\* one item of the formatted row
Item(prefix, label, value) == [prefix |-> prefix, col |-> label.v, value |-> value]

\* lines 282-286: a reference value as displayed
MhlwValue(v) == IF v.t = "ts" THEN Strftime(v.d) ELSE safe_str(v)

\* the items of one side of the formatted row, from position c on
RECURSIVE Items(_, _, _, _, _)
Items(prefix, cols, series, Render(_), c) ==
    IF c > Len(cols) THEN <<>>
    ELSE IF KeptLabel(cols[c]) /\ FirstIndex(cols, cols[c]) = c
         THEN <<Item(prefix, cols[c], Render(series[LastIndex(cols, cols[c])]))>>
              \o Items(prefix, cols, series, Render, c + 1)
         ELSE Items(prefix, cols, series, Render, c + 1)

\* _format_result_row(pharmacy_row, mhlw_row) when it does not raise: the
\* dict as the sequence of its items
format_result_row(ph_cols, ph_cells, mhlw_cols, mhlw_cells) ==
    Items("pharmacy_", ph_cols, PdSeries(ph_cells), safe_str, 1)
    \o Items("mhlw_", mhlw_cols, PdSeries(mhlw_cells), MhlwValue, 1)

\* lines 210-224 with the two lookups in the other order: name first
LookupKeys_NameFirst(cm, nm, pm, code, name) ==
    LET exact == IF name # <<>> THEN Get(nm, name) ELSE <<>>
        try_prefix == name # <<>> /\ exact = <<>> /\ Len(name) > 3
        by_prefix == IF try_prefix THEN Get(pm, Prefix5(name)) ELSE <<>>
        by_name == IF exact # <<>> THEN exact ELSE by_prefix
        try_code == by_name = <<>> /\ code # <<>>
    IN  [code |-> code,
         used_code |-> try_code,
         used_name |-> name # <<>>,
         used_prefix |-> try_prefix,
         matches |-> IF by_name # <<>> THEN by_name
                     ELSE IF try_code THEN Get(cm, code) ELSE <<>>]

\* lines 210-224 with the name lookup only for rows that have no code
LookupKeys_CodeOnly(cm, nm, pm, code, name) ==
    LET by_code == IF code # <<>> THEN Get(cm, code) ELSE <<>>
        try_name == code = <<>> /\ name # <<>>
        exact == IF try_name THEN Get(nm, name) ELSE <<>>
        try_prefix == try_name /\ exact = <<>> /\ Len(name) > 3
        by_prefix == IF try_prefix THEN Get(pm, Prefix5(name)) ELSE <<>>
    IN  [code |-> code,
         used_code |-> code # <<>>,
         used_name |-> try_name,
         used_prefix |-> try_prefix,
         matches |-> IF by_code # <<>> THEN by_code
                     ELSE IF exact # <<>> THEN exact
                     ELSE by_prefix]

\* lines 210-224 for a row whose normalized code and name are given
\* (name is <<>> when there is no name column or the cell is missing)
LookupKeys(cm, nm, pm, code, name) ==
    LET by_code == IF code # <<>> THEN Get(cm, code) ELSE <<>>
        try_name == by_code = <<>> /\ name # <<>>
        exact == IF try_name THEN Get(nm, name) ELSE <<>>
        try_prefix == try_name /\ exact = <<>> /\ Len(name) > 3
        by_prefix == IF try_prefix THEN Get(pm, Prefix5(name)) ELSE <<>>
    IN  [code |-> code,
         used_code |-> code # <<>>,
         used_name |-> try_name,
         used_prefix |-> try_prefix,
         matches |-> IF by_code # <<>> THEN by_code
                     ELSE IF exact # <<>> THEN exact
                     ELSE by_prefix]

\* lines 201-224: the lookups of one pharmacy row
Lookup(cm, nm, pm, ph_code_idx, ph_name_idx, cells) ==
    CHOOSE r \in
        { LookupKeys(cm, nm, pm, code, name) :
            code \in {IF ph_code_idx # 0 THEN NormCell(cells[ph_code_idx]) ELSE <<>>},
            name \in {IF ph_name_idx # 0 THEN NormCell(cells[ph_name_idx]) ELSE <<>>} } : TRUE

\* lines 230-231: the deduplication key of one pharmacy row
PharmacyCode(ph_cols, cells, code_column) ==
    IF LastIndex(ph_cols, code_column) = 0 THEN <<>>
    ELSE safe_str(PdSeries(cells)[LastIndex(ph_cols, code_column)])

\* lines 241-251 with an exclusive lower bound
HasRecent_Strict(tbl, update_column, matches, cutoff) ==
    IF Truthy(update_column)
    THEN \E k \in 1..Len(matches) :
            LET update_date == tbl.rows[matches[k]][LastIndex(tbl.columns, update_column)]
            IN  NotNa(update_date) /\ update_date.d > cutoff
    ELSE TRUE

\* lines 241-253 without the accept-all branch for a missing update column
HasRecent_NoAcceptAll(tbl, update_column, matches, cutoff) ==
    /\ Truthy(update_column)
    /\ \E k \in 1..Len(matches) :
          LET update_date == tbl.rows[matches[k]][LastIndex(tbl.columns, update_column)]
          IN  NotNa(update_date) /\ update_date.d >= cutoff

\* lines 241-251: has_recent
HasRecent(tbl, update_column, matches, cutoff) ==
    IF Truthy(update_column)
    THEN \E k \in 1..Len(matches) :
            LET update_date == tbl.rows[matches[k]][LastIndex(tbl.columns, update_column)]
            IN  NotNa(update_date) /\ update_date.d >= cutoff
    ELSE TRUE

\* _find_ingredient_column and _find_spec_column (their results are unused)
INGREDIENT_PATTERNS ==
    << <<"(3)", "naru", "bun", "mei">>, <<"naru", "bun", "mei">>, <<"(3)">>,
       <<"i", "n", "g", "r", "e", "d", "i", "e", "n", "t">> >>

SPEC_PATTERNS ==
    << <<"(4)", "nori", "kaku", "tan", "kurai">>, <<"nori", "kaku", "tan", "kurai">>, <<"(4)">>,
       <<"s", "p", "e", "c", "i", "f", "i", "c", "a", "t", "i", "o", "n">> >>

---------------------------------------------------------------------------
(* Inputs of the model: the cache file the matcher is built from, and the  *)
(* pharmacy tables, recency windows and clock readings of the calls.       *)

Aspirin == <<"a", "s", "p", "i", "r", "i", "n">>
Aspirex == <<"a", "s", "p", "i", "r", "e", "x">>
Ibu == <<"i", "b", "u">>
Ibup == <<"i", "b", "u", "p">>

ColYJ == Str(<<"(5)", "Y", "J">> \o KoDo)
ColHinmei == Str(<<"(6)", "hin", "mei">>)
ColUpdate == Str(<<"(20)", "tou", "gai", "hin", "moku", "no", "(12)">>)
ColPhCode == Str(<<"yaku", "hin">> \o KoDo)
ColPhName == Str(<<"yaku", "hin", "mei">>)
ColMemo == Str(<<"bi", "kou">>)
ColNote == Str(<<"me", "mo">>)
ColUnnamed(k) == Str(<<"U", "n", "n", "a", "m", "e", "d", ":", k>>)

NowValues == {20}
DaysBackValues == {DAYS_BACK, DAYS_BACK + 1}
Days == 0..20

\* raw update-date cells: an unparseable text and two dates
RawDates == {Str(<<"?">>), Ts(9), Ts(10)}

RefRowsDated ==
    {<<Str(<<"A", "1">>), Str(Aspirin), d>> : d \in RawDates}
    \cup {<<NaN, Str(Ibu), Ts(10)>>}

RefRowsUndated == {<<Str(<<"A", "1">>), Str(Aspirin)>>, <<NaN, Str(Ibup)>>, <<NaN, NaN>>}

\* files whose first data row is the agency's descriptive header line
MarkerHeaders ==
    { <<Str(HeaderMarker), ColYJ, ColHinmei, ColUpdate, Str(<<"x">>)>>,
      <<Str(HeaderMarker), ColYJ, ColHinmei, ColUpdate, NaN>>,
      <<Str(HeaderMarker), NaN, ColYJ, ColHinmei, ColUpdate>> }

MarkerFiles ==
    { [kind |-> "xlsx",
       columns |-> <<ColUnnamed("0"), ColUnnamed("1"), ColUnnamed("2"), ColUnnamed("3"),
                     ColUnnamed("4")>>,
       rows |-> <<h>> \o r] :
         h \in MarkerHeaders,
         r \in SeqsUpTo({<<Str(<<"x">>), Str(<<"A", "1">>), Str(Aspirin), Ts(10), NaN>>}, 1) }

Files ==
    {[kind |-> "absent"], [kind |-> "corrupt"]}
    \cup {[kind |-> "xlsx", columns |-> <<ColYJ, ColHinmei, ColUpdate>>, rows |-> r] :
            r \in SeqsUpTo(RefRowsDated, MaxRefRows)}
    \cup {[kind |-> "xlsx", columns |-> <<ColYJ, ColHinmei>>, rows |-> r] :
            r \in SeqsUpTo(RefRowsUndated, MaxRefRows)}
    \cup MarkerFiles

PhNameCells == {NaN, Str(Aspirin), Str(Aspirex)}

\* pharmacy rows: half-width, full-width, blank and missing codes
PhRows ==
    { <<Str(<<"a", "1">>), Str(Ibu)>>, <<Str(<<"FW_A", "1">>), Str(Aspirin)>>,
      <<Str(<<" ">>), Str(Aspirin)>>, <<NaN, Str(Ibu)>> }

PhSchemas ==
    {<<ColPhCode, ColPhName>>, <<ColMemo>>, <<ColUnnamed("0")>>, <<ColMemo, ColUnnamed("1")>>,
     <<ColMemo, ColNote>>, <<ColPhCode>>}

CodedTables == SeqsUpTo(PhRows, MaxPhRows)
NameOnlyTables == SeqsUpTo({<<n>> : n \in PhNameCells}, MaxPhRows)
UnlabelledTables == SeqsUpTo({<<Str(<<"a", "1">>), Str(Aspirin)>>}, MaxPhRows)
CodeOnlyTables == SeqsUpTo({<<Str(<<"a", "1">>)>>, <<Str(Aspirin)>>}, MaxPhRows)

\* the row sequences offered under a schema
PhRowSeqs(cols) ==
    CASE cols = <<ColPhCode, ColPhName>> -> CodedTables
      [] cols = <<ColMemo>> -> NameOnlyTables
      [] cols = <<ColUnnamed("0")>> -> SeqsUpTo({<<Str(Aspirin)>>}, MaxPhRows)
      [] cols = <<ColPhCode>> -> CodeOnlyTables
      [] OTHER -> UnlabelledTables

\* the calls offered to an idle matcher
AllCalls ==
    UNION { {[cols |-> cols, rows |-> rows, d |-> d] : rows \in PhRowSeqs(cols), d \in DaysBackValues} :
              cols \in PhSchemas }

\* lines 155-156 for each offered schema
PhResolved ==
    [cols \in PhSchemas |->
        [code |-> find_column(cols, DRUG_CODE_COLUMN_PATTERNS),
         name |-> find_column(cols, DRUG_NAME_COLUMN_PATTERNS)]]

\* lines 162-163 for each header a loaded reference table can have
RefSchemas ==
    {PromoteHeader([columns |-> f.columns, rows |-> f.rows]).columns :
        f \in {g \in Files : g.kind = "xlsx"}}

RefResolved ==
    [cols \in RefSchemas |->
        [ingredient |-> find_column(cols, INGREDIENT_PATTERNS),
         spec |-> find_column(cols, SPEC_PATTERNS)]]

---------------------------------------------------------------------------
(* State.                                                                  *)

VARIABLES
    file,                    \* the cache file at mhlw_excel_path
    mhlw_df,                 \* Unloaded (None) or [loaded |-> TRUE, tbl |-> table]
    update_date_column,
    drug_code_column,
    drug_name_column,
    pc,                      \* "new", "idle", "loop", "returned", "raised"
    pharmacy_df,             \* argument of the running call
    days_back,               \* argument of the running call
    cutoff_date,
    pharmacy_code_column,
    pharmacy_name_column,
    code_map,
    name_map,
    name_prefix_map,
    pos,                     \* position of the next pharmacy row
    matched_pharmacy_codes,
    matched_rows,
    stats,
    result,                  \* the returned dict, NoResult before a return
    fn,                      \* a direct call of a module-level function: its
                             \* arguments, its position and what it returned
    log,                     \* per processed pharmacy row, what the loop body did
    prev,                    \* outcome of the call before, when this call repeats
                             \* it on the same table with another days_back
    refresh_in_progress,     \* MHLWDownloader: the four refresh status fields
    last_refresh_started_at, \* a clock reading, 0 for None
    last_refresh_finished_at,
    last_refresh_error,      \* "none" for None, else the message
    refresh_lock,            \* the thread inside "with self._refresh_lock", 0 if free
    caller,                  \* per request thread: its position in
                             \* start_background_refresh and what the call returned
    worker,                  \* per request thread: the position of the thread it spawned
    job,                     \* the scheduler's background_update_task
    clock,                   \* datetime.now()
    cache,                   \* the file at MHLW_EXCEL_PATH: absent, complete or
                             \* partly written, and whose content it is
    meta,                    \* MHLWDownloader.meta
    excel_url,               \* MHLWDownloader.excel_url, 0 for None
    remote,                  \* what the agency's site serves now
    cu,                      \* the running check_and_update: position and locals
    reader,                  \* what the last load of the cache file found
    last,                    \* whether the check_and_update before this one
                             \* downloaded and the site has not published since
    req,                     \* a /check request and its pipeline thread
    jobs,                    \* JOBS of main.py: job id -> entry
    tasks,                   \* per job: its _run_job task and pipeline thread
    seen                     \* per job: the check_status responses so far

matcher == <<mhlw_df, update_date_column, drug_code_column, drug_name_column>>
args == <<pharmacy_df, days_back>>
resolved == <<cutoff_date, pharmacy_code_column, pharmacy_name_column,
              code_map, name_map, name_prefix_map>>
progress == <<pos, matched_pharmacy_codes, matched_rows, log>>
main == <<file, matcher, pc, args, resolved, progress, stats, result, prev>>
status == <<refresh_in_progress, last_refresh_started_at, last_refresh_finished_at,
            last_refresh_error>>
downloader == <<status, refresh_lock, caller, worker, job, clock>>
fetch == <<cache, meta, excel_url, remote, cu, reader, last>>
web == <<req, jobs, tasks, seen>>
vars == <<main, fn, downloader, fetch, web>>

NoCall == [op |-> "none"]

NoPrev == [kind |-> "none"]

NoResult == [none |-> TRUE]
NoTable == [columns |-> <<>>, rows |-> <<>>]

\* lines 139-143 with pharmacy_rows left at zero
Stats0_NoRowCount(n) == [pharmacy_rows |-> 0, matched_rows |-> 0, recent_updates |-> 0]

\* lines 139-143: the stats of a fresh result
Stats0(n) == [pharmacy_rows |-> n, matched_rows |-> 0, recent_updates |-> 0]

Failure(message, n) ==
    [success |-> FALSE, message |-> message, data |-> <<>>, stats |-> Stats0(n)]

Callers == 1..MaxCallers

\* MHLWDownloader.__init__, lines 25-32, with no thread started
NoRefresh ==
    /\ refresh_in_progress = FALSE
    /\ last_refresh_started_at = 0
    /\ last_refresh_finished_at = 0
    /\ last_refresh_error = "none"
    /\ refresh_lock = 0
    /\ caller = [c \in Callers |-> [pc |-> "idle", returned |-> "none"]]
    /\ worker = [c \in Callers |-> "none"]
    /\ job = "waiting"
    /\ clock = 0

\* the metadata fields of a served file; its content is told by all four
Remote0 == [etag |-> 1, last_modified |-> 1, content_length |-> 1, url |-> 1]

\* self.meta = {} (line 26): every .get gives None, written 0
NoMeta == [etag |-> 0, last_modified |-> 0, content_length |-> 0, url |-> 0]

Absent == [state |-> "absent"]
Complete(v) == [state |-> "complete", v |-> v]
Partial(v, n) == [state |-> "partial", v |-> v, written |-> n]

CuIdle == [pc |-> "idle"]
NoLast == [kind |-> "none"]

\* no check_and_update called, nothing cached, nothing read
NoFetch ==
    /\ cache = Absent
    /\ meta = NoMeta
    /\ excel_url = 0
    /\ remote = Remote0
    /\ cu = CuIdle
    /\ reader = [state |-> "none"]
    /\ last = NoLast

JobIds == 1..MaxJobs

NoJob == [status |-> "none"]

\* no request made, JOBS = {} (main.py line 29)
NoWeb ==
    /\ req = [pc |-> "idle", thread |-> "none"]
    /\ jobs = [j \in JobIds |-> NoJob]
    /\ tasks = [j \in JobIds |-> [pc |-> "none", thread |-> "none"]]
    /\ seen = [j \in JobIds |-> <<>>]

\* no matcher constructed and no call made
NoMatcher ==
    /\ mhlw_df = Unloaded
    /\ update_date_column = PyNone
    /\ drug_code_column = PyNone
    /\ drug_name_column = PyNone
    /\ pc = "new"
    /\ pharmacy_df = NoTable
    /\ days_back = 0
    /\ cutoff_date = 0
    /\ pharmacy_code_column = PyNone
    /\ pharmacy_name_column = PyNone
    /\ code_map = <<>>
    /\ name_map = <<>>
    /\ name_prefix_map = <<>>
    /\ pos = 0
    /\ matched_pharmacy_codes = {}
    /\ matched_rows = <<>>
    /\ stats = Stats0(0)
    /\ result = NoResult
    /\ log = <<>>
    /\ prev = NoPrev

Init ==
    /\ file \in Files
    /\ NoMatcher
    /\ NoRefresh
    /\ NoFetch
    /\ NoWeb
    /\ fn = NoCall

\* ExcelMatcher.__init__ with _load_mhlw_data
Construct ==
    /\ pc = "new"
    /\ \E m \in {LoadMhlwData(file, Days)} :
           /\ mhlw_df' = m.mhlw_df
           /\ update_date_column' = m.update
           /\ drug_code_column' = m.code
           /\ drug_name_column' = m.name
    /\ pc' = "idle"
    /\ UNCHANGED <<downloader, fetch, web, fn, file, args, resolved, progress, stats, result, prev>>

\* the locals of a call that ended before the loop
NoLocals ==
    /\ cutoff_date' = 0
    /\ pharmacy_code_column' = PyNone
    /\ pharmacy_name_column' = PyNone
    /\ code_map' = <<>>
    /\ name_map' = <<>>
    /\ name_prefix_map' = <<>>
    /\ pos' = 0
    /\ matched_pharmacy_codes' = {}
    /\ matched_rows' = <<>>
    /\ log' = <<>>

\* lines 135-152: a call that returns early with a failure message
ReturnFailure(message, calls) ==
    /\ NoLocals
    /\ pc' = "returned"
    /\ \E call \in calls :
          /\ pharmacy_df' = [columns |-> call.cols, rows |-> call.rows]
          /\ days_back' = call.d
          /\ stats' = Stats0(Len(call.rows))
          /\ result' = Failure(message, Len(call.rows))

\* lines 156-159 without the single-column fallback
NameColumn_NoFallback(cols, found) == found

\* lines 156-159: the pharmacy name column, given what find_column found
NameColumn(cols, found) ==
    IF ~Truthy(found) /\ Len(cols) = 1 THEN cols[1] ELSE found

\* lines 155-197 with the set of matched codes kept from the call before
EnterLoop_CarriesCodes(calls) ==
    /\ code_map' = BuildCodeMap(mhlw_df.tbl, LastIndex(mhlw_df.tbl.columns, drug_code_column))
    /\ name_map' = BuildNameMap(mhlw_df.tbl, LastIndex(mhlw_df.tbl.columns, drug_name_column))
    /\ name_prefix_map' =
          BuildNamePrefixMap(mhlw_df.tbl, LastIndex(mhlw_df.tbl.columns, drug_name_column))
    /\ \E ing \in {RefResolved[mhlw_df.tbl.columns].ingredient},
          spc \in {RefResolved[mhlw_df.tbl.columns].spec},
          call \in calls, now \in NowValues :
            /\ pharmacy_df' = [columns |-> call.cols, rows |-> call.rows]
            /\ days_back' = call.d
            /\ stats' = Stats0(Len(call.rows))
            /\ result' = NoResult
            /\ pharmacy_code_column' = PhResolved[call.cols].code.col
            /\ pharmacy_name_column' = NameColumn(call.cols, PhResolved[call.cols].name.col)
            /\ cutoff_date' = now - call.d
            /\ pos' = 1
            /\ matched_pharmacy_codes' = matched_pharmacy_codes
            /\ matched_rows' = <<>>
            /\ log' = <<>>
            /\ pc' = IF ing.raised \/ spc.raised THEN "raised" ELSE "loop"

\* lines 155-197: column resolution and index construction
EnterLoop(calls) ==
    /\ code_map' = BuildCodeMap(mhlw_df.tbl, LastIndex(mhlw_df.tbl.columns, drug_code_column))
    /\ name_map' = BuildNameMap(mhlw_df.tbl, LastIndex(mhlw_df.tbl.columns, drug_name_column))
    /\ name_prefix_map' =
          BuildNamePrefixMap(mhlw_df.tbl, LastIndex(mhlw_df.tbl.columns, drug_name_column))
    /\ \E ing \in {RefResolved[mhlw_df.tbl.columns].ingredient},
          spc \in {RefResolved[mhlw_df.tbl.columns].spec},
          call \in calls, now \in NowValues :
            /\ pharmacy_df' = [columns |-> call.cols, rows |-> call.rows]
            /\ days_back' = call.d
            /\ stats' = Stats0(Len(call.rows))
            /\ result' = NoResult
            /\ pharmacy_code_column' = PhResolved[call.cols].code.col
            /\ pharmacy_name_column' = NameColumn(call.cols, PhResolved[call.cols].name.col)
            /\ cutoff_date' = now - call.d
            /\ pos' = 1
            /\ matched_pharmacy_codes' = {}
            /\ matched_rows' = <<>>
            /\ log' = <<>>
            /\ pc' = IF ing.raised \/ spc.raised THEN "raised" ELSE "loop"

\* match_and_filter, lines 135-197: entry, early returns, column resolution
Enter(calls) ==
    IF ~mhlw_df.loaded THEN ReturnFailure("MHLW data not loaded", calls)
    ELSE IF mhlw_df.tbl.rows = <<>> \/ mhlw_df.tbl.columns = <<>>
    THEN ReturnFailure("MHLW data is empty", calls)
    ELSE EnterLoop(calls)

\* a call of match_and_filter on an idle matcher
CallMatchAndFilter ==
    /\ pc = "idle"
    /\ Enter(AllCalls)
    /\ prev' = NoPrev
    /\ UNCHANGED <<downloader, fetch, web, fn, file, matcher>>

\* the next call of a loop over days_back values on one pharmacy table
CallAgain ==
    /\ pc \in {"returned", "raised"}
    /\ prev = NoPrev
    /\ Enter({[cols |-> pharmacy_df.columns, rows |-> pharmacy_df.rows, d |-> d] :
                d \in DaysBackValues \ {days_back}})
    /\ prev' = IF pc = "returned" THEN [kind |-> "returned", days_back |-> days_back,
                                        result |-> result]
               ELSE [kind |-> "raised", days_back |-> days_back]
    /\ UNCHANGED <<downloader, fetch, web, fn, file, matcher>>

\* the same call once more: the same pharmacy table and the same days_back
CallRepeat ==
    /\ pc \in {"returned", "raised"}
    /\ prev = NoPrev
    /\ Enter({[cols |-> pharmacy_df.columns, rows |-> pharmacy_df.rows, d |-> days_back]})
    /\ prev' = IF pc = "returned" THEN [kind |-> "returned", days_back |-> days_back,
                                        result |-> result]
               ELSE [kind |-> "raised", days_back |-> days_back]
    /\ UNCHANGED <<downloader, fetch, web, fn, file, matcher>>

\* lines 226-238 with the counter bumped before the no-match test
Outcome_CountsUnmatched(matched, dup) ==
    IF dup THEN "duplicate" ELSE "counted"

\* lines 226-238: what the loop body does with a row, given whether it has
\* matches and whether its code was already registered
Outcome(matched, dup) ==
    IF ~matched THEN "unmatched" ELSE IF dup THEN "duplicate" ELSE "counted"

\* lines 196-197: positions of the pharmacy code and name columns (0: None)
ph_code_idx ==
    IF Truthy(pharmacy_code_column)
    THEN FirstIndex(pharmacy_df.columns, pharmacy_code_column) ELSE 0

ph_name_idx ==
    IF Truthy(pharmacy_name_column)
    THEN FirstIndex(pharmacy_df.columns, pharmacy_name_column) ELSE 0

\* match_and_filter, lines 199-260: one iteration of the loop over pharmacy rows
ProcessRow ==
    /\ pc = "loop"
    /\ pos <= Len(pharmacy_df.rows)
    /\ \E cells \in {pharmacy_df.rows[pos]}, tbl \in {mhlw_df.tbl} :
       \E lk \in {Lookup(code_map, name_map, name_prefix_map, ph_code_idx, ph_name_idx,
                         cells)},
          key \in {PharmacyCode(pharmacy_df.columns, cells, pharmacy_code_column)} :
       \E matched \in {lk.matches # <<>>} :
       \E dup \in {matched /\ key # <<>> /\ key \in matched_pharmacy_codes} :
       \E counted \in {Outcome(matched, dup) = "counted"} :
       \E recent \in {counted /\ HasRecent(tbl, update_date_column, lk.matches, cutoff_date)} :
       \E formats \in {recent /\ lk.matches # <<>>} :
       \E raises \in {formats /\ FormatRaises(pharmacy_df.columns, tbl.columns,
                                             tbl.rows[lk.matches[1]])} :
           /\ matched_pharmacy_codes' =
                 IF counted /\ key # <<>> THEN matched_pharmacy_codes \cup {key}
                 ELSE matched_pharmacy_codes
           /\ stats' = [stats EXCEPT
                          !.matched_rows = IF counted THEN @ + 1 ELSE @,
                          !.recent_updates = IF recent THEN @ + 1 ELSE @]
           /\ matched_rows' =
                 IF formats /\ ~raises
                 THEN Append(matched_rows,
                             format_result_row(pharmacy_df.columns, cells,
                                               tbl.columns, tbl.rows[lk.matches[1]]))
                 ELSE matched_rows
           /\ log' = Append(log,
                 [code |-> lk.code, key |-> key,
                  used_code |-> lk.used_code, used_name |-> lk.used_name,
                  used_prefix |-> lk.used_prefix, matches |-> lk.matches,
                  outcome |-> Outcome(matched, dup),
                  recent |-> recent, emitted |-> formats /\ ~raises])
           /\ pc' = IF raises THEN "raised" ELSE "loop"
    /\ pos' = pos + 1
    /\ UNCHANGED <<downloader, fetch, web, fn, file, matcher, args, resolved, result, prev>>

\* match_and_filter, lines 262-266: the return after the loop
Return ==
    /\ pc = "loop"
    /\ pos > Len(pharmacy_df.rows)
    /\ result' = [success |-> TRUE,
                  message |-> "Matched " \o ToString(Len(matched_rows))
                              \o " drugs with recent updates",
                  data |-> matched_rows,
                  stats |-> stats]
    /\ pc' = "returned"
    /\ UNCHANGED <<downloader, fetch, web, fn, file, matcher, args, resolved, progress, stats, prev>>

\* the caller is done with the outcome of the call; the matcher is kept
Discard ==
    /\ pc \in {"returned", "raised"}
    /\ pc' = "idle"
    /\ result' = NoResult
    /\ pharmacy_df' = NoTable
    /\ days_back' = 0
    /\ stats' = Stats0(0)
    /\ NoLocals
    /\ prev' = NoPrev
    /\ UNCHANGED <<downloader, fetch, web, fn, file, matcher>>

Next ==
    \/ Construct
    \/ CallMatchAndFilter
    \/ CallAgain
    \/ CallRepeat
    \/ ProcessRow
    \/ Return
    \/ Discard

Spec == Init /\ [][Next]_vars

---------------------------------------------------------------------------
(* find_column called on its own, as main.py does on an uploaded header.   *)

PatYJ == <<"Y", "J">> \o KoDo
PatJAN == <<"J", "A", "N">>
PatHinmei == <<"hin", "mei">>

\* column labels: exact, lower-case, full-width and semantic-only forms
FcLabels ==
    { Str(PatYJ), Str(PatJAN), Str(<<"j", "a", "n">>), Str(<<"J", "FW_A", "N">>), Str(KoDo),
      Str(<<"shi", "mei">>), ColPhName, ColMemo }

FcPatternLists ==
    { <<PatYJ, PatJAN>>, <<PatJAN, PatYJ>>, <<PatJAN>>, <<PatHinmei>>, <<PatJAN, PatHinmei>>,
      DRUG_CODE_COLUMN_PATTERNS, DRUG_NAME_COLUMN_PATTERNS }

InitFind ==
    /\ file = [kind |-> "absent"]
    /\ NoMatcher
    /\ NoRefresh
    /\ NoFetch
    /\ NoWeb
    /\ \E cols \in SeqsUpTo(FcLabels, MaxCols), patterns \in FcPatternLists :
          fn = [op |-> "find_column", cols |-> cols, patterns |-> patterns,
                pc |-> "called", out |-> NoResult]

\* find_column(df, patterns) runs and returns
FindColumn ==
    /\ fn.op = "find_column"
    /\ fn.pc = "called"
    /\ fn' = [fn EXCEPT !.pc = "returned", !.out = find_column(fn.cols, fn.patterns)]
    /\ UNCHANGED <<main, downloader, fetch, web>>

NextFind == FindColumn

SpecFind == InitFind /\ [][NextFind]_vars

---------------------------------------------------------------------------
(* What the rows of a call are, read from the arguments and the reference  *)
(* table rather than from the indexes built for the call.                  *)

\* the normalized keys of the cells the input tables hold, computed once
InputCells ==
    UNION {{r[c] : c \in 1..Len(r)} : r \in RefRowsDated \cup RefRowsUndated \cup PhRows}
    \cup PhNameCells

NormOf == [v \in InputCells |-> NormCell(v)]

\* NormCell(v), looked up when v is an input cell
KeyOf(v) == IF v \in InputCells THEN NormOf[v] ELSE NormCell(v)

\* the normalized key of reference row j under a label
RefKeyOf(label, j) ==
    IF LastIndex(mhlw_df.tbl.columns, label) = 0 THEN <<>>
    ELSE KeyOf(mhlw_df.tbl.rows[j][LastIndex(mhlw_df.tbl.columns, label)])

\* lines 204-209: the normalized code of pharmacy row k
RowCode(k) == IF ph_code_idx = 0 THEN <<>> ELSE KeyOf(pharmacy_df.rows[k][ph_code_idx])

\* lines 215-220: the normalized name of pharmacy row k
RowName(k) == IF ph_name_idx = 0 THEN <<>> ELSE KeyOf(pharmacy_df.rows[k][ph_name_idx])

\* the reference rows, in table order, whose normalized cell under a label is key
RefRowsWith(label, key) ==
    IF key = <<>> THEN <<>>
    ELSE SelectIdx(Len(mhlw_df.tbl.rows),
                   LAMBDA j : RefKeyOf(label, j) = key,
                   1)

RefRowsWithCode(code) == RefRowsWith(drug_code_column, code)

RefRowsWithName(name) == RefRowsWith(drug_name_column, name)

\* the reference rows whose name shares the first five characters of a name
\* longer than three characters
RefRowsWithPrefix(name) ==
    IF Len(name) <= 3 THEN <<>>
    ELSE SelectIdx(Len(mhlw_df.tbl.rows),
                   LAMBDA j : PrefixKey(RefKeyOf(drug_name_column, j)) = Prefix5(name),
                   1)

\* lines 221-224: the name matches of a normalized name, exact before prefix
NameMatches(name) ==
    IF RefRowsWithName(name) # <<>> THEN RefRowsWithName(name) ELSE RefRowsWithPrefix(name)

\* the update-date cell of reference row j
UpdateDate(j) == mhlw_df.tbl.rows[j][LastIndex(mhlw_df.tbl.columns, update_date_column)]

\* the number of output rows appended by the first k iterations
EmittedUpTo(k) == Cardinality({i \in 1..k : log[i].emitted})

\* the files whose reading ends in the except clause of _load_mhlw_data
LoadFailing ==
    {f \in Files :
        \/ f.kind # "xlsx"
        \/ \E patterns \in {<<UPDATE_DATE_COLUMN_PATTERN>>, DRUG_CODE_COLUMN_PATTERNS,
                            DRUG_NAME_COLUMN_PATTERNS} :
              find_column(DropEmptyRows(PromoteHeader([columns |-> f.columns,
                                                       rows |-> f.rows])).columns,
                          patterns).raised}

---------------------------------------------------------------------------
(* Properties.                                                             *)

\* C1: a pharmacy row whose normalized code is non-empty and is the code of
\* some reference row is matched to exactly the reference rows of that code,
\* and neither the name index nor the prefix index is consulted for it, even
\* when its name matches other reference rows.
C1_CodePrecedence ==
    \A k \in 1..Len(log) :
        (RowCode(k) # <<>> /\ RefRowsWithCode(RowCode(k)) # <<>>) =>
            /\ log[k].matches = RefRowsWithCode(RowCode(k))
            /\ ~log[k].used_name
            /\ ~log[k].used_prefix

\* a processed row whose code matches one reference row while its name
\* matches a different one
C1_Witness ==
    \E k \in 1..Len(log) :
        /\ RowCode(k) # <<>>
        /\ RefRowsWithCode(RowCode(k)) # <<>>
        /\ NameMatches(RowName(k)) # <<>>
        /\ NameMatches(RowName(k)) # RefRowsWithCode(RowCode(k))
        /\ log[k].outcome = "counted"

\* the rows C2 is about: a code that is present and matches nothing, a
\* resolved name column, a name that matches
CodeMissesNameHits(k) ==
    /\ RowCode(k) # <<>>
    /\ RefRowsWithCode(RowCode(k)) = <<>>
    /\ ph_name_idx # 0
    /\ NameMatches(RowName(k)) # <<>>

\* C2 (amended): a pharmacy row whose code is present but matches no
\* reference row is matched by name when a name column was resolved and its
\* name matches: its matched reference rows are the name matches, and it is
\* counted in matched_rows unless an earlier counted row of the call carried
\* the same code, in which case it is skipped as a duplicate.
C2_NameFallback ==
    \A k \in 1..Len(log) :
        CodeMissesNameHits(k) =>
            /\ log[k].matches = NameMatches(RowName(k))
            /\ \/ log[k].outcome = "counted"
               \/ /\ log[k].outcome = "duplicate"
                  /\ \E i \in 1..(k - 1) :
                        log[i].outcome = "counted" /\ log[i].key = log[k].key

\* a counted row whose code matched nothing and whose name matched
C2_Witness ==
    \E k \in 1..Len(log) : CodeMissesNameHits(k) /\ log[k].outcome = "counted"

\* C2 as stated: every such row is counted in matched_rows.
C2_AlwaysCounted ==
    \A k \in 1..Len(log) : CodeMissesNameHits(k) => log[k].outcome = "counted"

\* C3 as stated: of two pharmacy rows of one call whose codes are non-empty
\* and equal after normalization, at most one is counted in matched_rows and
\* at most one contributes an output row.
C3_DedupOnNormalizedCode ==
    \A i, j \in 1..Len(log) :
        (i < j /\ RowCode(i) # <<>> /\ RowCode(i) = RowCode(j)) =>
            /\ ~(log[i].outcome = "counted" /\ log[j].outcome = "counted")
            /\ ~(log[i].emitted /\ log[j].emitted)

\* C4 as stated: a pharmacy row whose normalized code is empty takes no part
\* in code lookup or deduplication: when it matches by name it is counted,
\* never skipped as a duplicate of an earlier row.
C4_EmptyCodeNeverDedups ==
    \A k \in 1..Len(log) :
        RowCode(k) = <<>> =>
            /\ ~log[k].used_code
            /\ log[k].matches # <<>> => log[k].outcome = "counted"

\* C5: with an update-date column, a counted row one of whose matched
\* reference rows is dated exactly at the cutoff is recent, and a counted row
\* all of whose matched reference rows are dated one day before the cutoff is
\* not recent and is not emitted; the output holds the emitted rows only.
C5_InclusiveCutoff ==
    Truthy(update_date_column) =>
        /\ \A k \in 1..Len(log) :
              log[k].outcome = "counted" =>
                  /\ (\E m \in 1..Len(log[k].matches) :
                         UpdateDate(log[k].matches[m]) = Ts(cutoff_date))
                     => log[k].recent
                  /\ (\A m \in 1..Len(log[k].matches) :
                         UpdateDate(log[k].matches[m]) = Ts(cutoff_date - 1))
                     => (~log[k].recent /\ ~log[k].emitted)
        /\ pc \in {"loop", "returned"} => Len(matched_rows) = EmittedUpTo(Len(log))

\* one call with a recent row dated at the cutoff and a row dated the day before
C5_Witness ==
    /\ Truthy(update_date_column)
    /\ pc = "returned"
    /\ \E k \in 1..Len(log) :
          /\ log[k].outcome = "counted"
          /\ \E m \in 1..Len(log[k].matches) : UpdateDate(log[k].matches[m]) = Ts(cutoff_date)
          /\ log[k].emitted
    /\ \E k \in 1..Len(log) :
          /\ log[k].outcome = "counted"
          /\ \A m \in 1..Len(log[k].matches) :
                UpdateDate(log[k].matches[m]) = Ts(cutoff_date - 1)
          /\ ~log[k].emitted

C7_AnyRecentFirstRow ==
    Truthy(update_date_column) =>
        \A k \in 1..Len(log) :
            log[k].outcome = "counted" =>
                /\ log[k].recent <=>
                      \E m \in 1..Len(log[k].matches) :
                          /\ NotNa(UpdateDate(log[k].matches[m]))
                          /\ UpdateDate(log[k].matches[m]).d >= cutoff_date
                /\ log[k].recent =>
                      /\ log[k].emitted
                      /\ EmittedUpTo(k) = EmittedUpTo(k - 1) + 1
                      /\ matched_rows[EmittedUpTo(k)] =
                            format_result_row(pharmacy_df.columns, pharmacy_df.rows[k],
                                              mhlw_df.tbl.columns,
                                              mhlw_df.tbl.rows[log[k].matches[1]])

\* C8 as stated: a call repeated on the same matcher and pharmacy table with
\* another days_back ends as the call before did, with the same
\* stats.matched_rows and stats.pharmacy_rows.
C8_DaysBackOnlyFilters ==
    (prev.kind # "none" /\ pc \in {"returned", "raised"}) =>
        /\ (prev.kind = "returned") <=> (pc = "returned")
        /\ (prev.kind = "returned" /\ pc = "returned") =>
              /\ result.stats.matched_rows = prev.result.stats.matched_rows
              /\ result.stats.pharmacy_rows = prev.result.stats.pharmacy_rows

\* C9: constructing the matcher never raises; a file that is absent or whose
\* reading fails leaves the table unloaded; every call on an unloaded matcher
\* returns the failure "MHLW data not loaded" and a call on a table loaded
\* with zero rows returns the failure "MHLW data is empty", both with empty
\* data and zero matched_rows and recent_updates, without raising.
C9_LoadFailure ==
    pc # "new" =>
        /\ file \in LoadFailing => ~mhlw_df.loaded
        /\ ~mhlw_df.loaded =>
              /\ pc \in {"idle", "returned"}
              /\ pc = "returned" =>
                    result = [success |-> FALSE, message |-> "MHLW data not loaded",
                              data |-> <<>>,
                              stats |-> [pharmacy_rows |-> Len(pharmacy_df.rows),
                                         matched_rows |-> 0, recent_updates |-> 0]]
        /\ (mhlw_df.loaded /\ mhlw_df.tbl.rows = <<>>) =>
              /\ pc \in {"idle", "returned"}
              /\ pc = "returned" =>
                    result = [success |-> FALSE, message |-> "MHLW data is empty",
                              data |-> <<>>,
                              stats |-> [pharmacy_rows |-> Len(pharmacy_df.rows),
                                         matched_rows |-> 0, recent_updates |-> 0]]

\* a call that returned on a matcher whose file was read but failed to load
C9_Witness ==
    /\ pc = "returned"
    /\ file.kind = "xlsx"
    /\ ~mhlw_df.loaded
    /\ Len(pharmacy_df.rows) >= 1
    /\ result.message = "MHLW data not loaded"

\* C10 as stated: a call of match_and_filter on a loaded reference table
\* never raises.
C10_NeverRaises == pc # "raised"

\* C11: a pharmacy row for which neither the code lookup nor the name lookup
\* (exact or prefix) yields a reference row leaves the output rows, both
\* counters and the set of registered codes as they were, and
\* stats.pharmacy_rows is the number of input rows.
C11_UnmatchedSkipped ==
    [][(/\ pc = "loop"
        /\ pos <= Len(pharmacy_df.rows)
        /\ RefRowsWithCode(RowCode(pos)) = <<>>
        /\ NameMatches(RowName(pos)) = <<>>)
       => (/\ matched_rows' = matched_rows
           /\ stats' = stats
           /\ matched_pharmacy_codes' = matched_pharmacy_codes
           /\ stats.pharmacy_rows = Len(pharmacy_df.rows)
           /\ pc' = "loop")]_vars

\* a returned call in which a row with a code matched nothing and another
\* row was counted
C11_Witness ==
    /\ pc = "returned"
    /\ result.success
    /\ \E k \in 1..Len(log) :
          /\ log[k].outcome = "unmatched"
          /\ log[k].key # <<>>
          /\ log[k].key \notin matched_pharmacy_codes
    /\ result.stats.matched_rows = 1
    /\ result.stats.pharmacy_rows = 2
    /\ Len(result.data) = 1

\* C12: when find_column finds no name column in the pharmacy table, a table
\* of exactly one column has that column as its name signal (a row without
\* code match is matched to the name matches of its only cell), and a table
\* of two or more columns gets no name matching at all.
C12_SingleColumnIsName ==
    (pc \in {"loop", "returned", "raised"} /\ pharmacy_df.columns \in PhSchemas
     /\ mhlw_df.loaded /\ mhlw_df.tbl.rows # <<>>
     /\ ~Truthy(PhResolved[pharmacy_df.columns].name.col)) =>
        IF Len(pharmacy_df.columns) = 1
        THEN /\ pharmacy_name_column = pharmacy_df.columns[1]
             /\ \A k \in 1..Len(log) :
                   RefRowsWithCode(RowCode(k)) = <<>> =>
                       log[k].matches = NameMatches(KeyOf(pharmacy_df.rows[k][1]))
        ELSE /\ ~Truthy(pharmacy_name_column)
             /\ \A k \in 1..Len(log) : ~log[k].used_name /\ ~log[k].used_prefix

\* a returned call on a single unnamed column whose row was matched by name
C12_Witness ==
    /\ pc = "returned"
    /\ result.success
    /\ Len(pharmacy_df.columns) = 1
    /\ ~Truthy(PhResolved[pharmacy_df.columns].name.col)
    /\ ~Truthy(PhResolved[pharmacy_df.columns].code.col)
    /\ \E k \in 1..Len(log) : log[k].used_name /\ log[k].outcome = "counted"

\* the normalized name of reference row j
RefName(j) == RefKeyOf(drug_name_column, j)

\* C13: a row that reaches name matching gets the reference rows of its whole
\* normalized name; the prefix index is consulted exactly when those are none
\* and the name is longer than 3 characters, with its first 5 characters; and
\* the prefix index holds exactly the reference rows whose normalized name is
\* longer than 3 characters, under the first 5 characters of that name (the
\* index is compared when the loop is entered; the loop never writes it).
C13_ExactThenPrefix ==
    pc \in {"loop", "returned", "raised"} /\ mhlw_df.loaded /\ mhlw_df.tbl.rows # <<>> =>
        /\ \A k \in 1..Len(log) :
              log[k].used_name =>
                  \A name \in {RowName(k)} : \A exact \in {RefRowsWithName(name)} :
                      /\ log[k].used_prefix <=> (exact = <<>> /\ Len(name) > 3)
                      /\ log[k].matches =
                            IF exact # <<>> THEN exact
                            ELSE IF Len(name) > 3
                                 THEN Get(name_prefix_map, SubSeq(name, 1, 5))
                                 ELSE <<>>
        /\ log = <<>> =>
              \A names \in {[j \in 1..Len(mhlw_df.tbl.rows) |-> RefName(j)]} :
                  /\ DOMAIN name_prefix_map =
                        {Prefix5(names[j]) : j \in {i \in DOMAIN names : Len(names[i]) > 3}}
                  /\ \A key \in DOMAIN name_prefix_map :
                        name_prefix_map[key] =
                            SelectIdx(Len(names),
                                      LAMBDA j : Len(names[j]) > 3 /\ Prefix5(names[j]) = key, 1)

\* a row matched through the prefix index of a table that also holds a name
\* of three characters
C13_Witness ==
    /\ pc = "returned"
    /\ result.success
    /\ \E k \in 1..Len(log) :
          log[k].used_prefix /\ log[k].matches # <<>> /\ log[k].outcome = "counted"
    /\ \E j \in 1..Len(mhlw_df.tbl.rows) : Len(RefName(j)) = 3

\* whether a label matches some pattern in a tier of find_column
MatchesInTier(t, label, patterns) ==
    CASE t = 1 -> \E k \in 1..Len(patterns) : label = Str(patterns[k])
      [] t = 2 -> \E k \in 1..Len(patterns) : Contains(Lower(label.v), Lower(patterns[k]))
      [] t = 3 -> \E k \in 1..Len(patterns) :
                     Contains(normalize_text(label), normalize_text(Str(patterns[k])))
      [] t = 4 -> \/ /\ \E k \in 1..Len(patterns) :
                          Contains(Lower(patterns[k]), <<"c", "o", "d", "e">>)
                          \/ Contains(patterns[k], KoDo)
                     /\ Contains(label.v, KoDo) \/ Contains(Lower(label.v), <<"c", "o", "d", "e">>)
                  \/ /\ \E k \in 1..Len(patterns) :
                          Contains(Lower(patterns[k]), <<"n", "a", "m", "e">>)
                          \/ Contains(patterns[k], Mei)
                     /\ Contains(label.v, Mei) \/ Contains(Lower(label.v), <<"n", "a", "m", "e">>)

\* the tiers in which some column of the schema matches some pattern
TiersHit(cols, patterns) ==
    {t \in 1..4 : \E j \in 1..Len(cols) : MatchesInTier(t, cols[j], patterns)}

\* the earliest of a non-empty set of tiers
Earliest(tiers) == CHOOSE t \in tiers : \A u \in tiers : t <= u

\* C14: find_column returns a column that matches in the earliest tier in
\* which any schema column matches any pattern, and it returns none exactly
\* when no column matches in any tier.
C14_EarliestTier ==
    (fn.op = "find_column" /\ fn.pc = "returned") =>
        /\ ~fn.out.raised
        /\ IF TiersHit(fn.cols, fn.patterns) = {}
           THEN fn.out.col = PyNone
           ELSE /\ \E j \in 1..Len(fn.cols) : fn.cols[j] = fn.out.col
                /\ MatchesInTier(Earliest(TiersHit(fn.cols, fn.patterns)), fn.out.col, fn.patterns)

\* a call decided in the second tier although the first schema column
\* matches in a later tier only
C14_Witness ==
    /\ fn.op = "find_column"
    /\ fn.pc = "returned"
    /\ Len(fn.cols) = 2
    /\ Earliest(TiersHit(fn.cols, fn.patterns) \cup {4}) = 2
    /\ ~MatchesInTier(2, fn.cols[1], fn.patterns)
    /\ MatchesInTier(3, fn.cols[1], fn.patterns)
    /\ fn.out.col = fn.cols[2]

\* whether a label matches one pattern in one of the first three tiers
MatchesPattern(t, label, p) ==
    CASE t = 1 -> label = Str(p)
      [] t = 2 -> Contains(Lower(label.v), Lower(p))
      [] t = 3 -> Contains(normalize_text(label), normalize_text(Str(p)))

\* the positions of the patterns some schema column matches in a tier
PatternsHit(t, cols, patterns) ==
    {k \in 1..Len(patterns) : \E j \in 1..Len(cols) : MatchesPattern(t, cols[j], patterns[k])}

\* C15 as stated: when one of the first three tiers decides the call, the
\* returned column is the first schema column that matches the earliest
\* pattern of the list matched by any column in that tier.
C15_PatternPriority ==
    (fn.op = "find_column" /\ fn.pc = "returned"
     /\ TiersHit(fn.cols, fn.patterns) # {}
     /\ Earliest(TiersHit(fn.cols, fn.patterns)) <= 3) =>
        LET t == Earliest(TiersHit(fn.cols, fn.patterns))
            k == Earliest(PatternsHit(t, fn.cols, fn.patterns))
            j == Earliest({i \in 1..Len(fn.cols) : MatchesPattern(t, fn.cols[i], fn.patterns[k])})
        IN  fn.out = Found(fn.cols[j])

\* whether a pattern names the code term, and whether it names the name term
IsCodePattern(p) == Contains(Lower(p), <<"c", "o", "d", "e">>) \/ Contains(p, KoDo)
IsNamePattern(p) == Contains(Lower(p), <<"n", "a", "m", "e">>) \/ Contains(p, Mei)

\* whether a label carries the code term, and whether it carries the name term
IsCodeLabel(c) == Contains(c.v, KoDo) \/ Contains(Lower(c.v), <<"c", "o", "d", "e">>)
IsNameLabel(c) == Contains(c.v, Mei) \/ Contains(Lower(c.v), <<"n", "a", "m", "e">>)

\* a returned call that none of the first three tiers decided
FellThrough ==
    /\ fn.op = "find_column"
    /\ fn.pc = "returned"
    /\ \A t \in 1..3 : \A j \in 1..Len(fn.cols) : ~MatchesInTier(t, fn.cols[j], fn.patterns)

\* C16 (amended): past the first three tiers, the code fallback applies when
\* at least one pattern is code-related and returns the first schema column
\* carrying the code term; otherwise the name fallback applies when at least
\* one pattern is name-related and returns the first column carrying the name
\* term; otherwise the call returns none.
C16_FallbackOnAnyPattern ==
    FellThrough =>
        LET code == \E k \in 1..Len(fn.patterns) : IsCodePattern(fn.patterns[k])
            name == \E k \in 1..Len(fn.patterns) : IsNamePattern(fn.patterns[k])
            cs == {j \in 1..Len(fn.cols) : IsCodeLabel(fn.cols[j])}
            ns == {j \in 1..Len(fn.cols) : IsNameLabel(fn.cols[j])}
        IN  IF code /\ cs # {} THEN fn.out = Found(fn.cols[Earliest(cs)])
            ELSE IF name /\ ns # {} THEN fn.out = Found(fn.cols[Earliest(ns)])
            ELSE fn.out = Found(PyNone)

\* a list in which only some patterns are code-related whose call the code
\* fallback decided
C16_Witness ==
    /\ FellThrough
    /\ \E k \in 1..Len(fn.patterns) : IsCodePattern(fn.patterns[k])
    /\ \E k \in 1..Len(fn.patterns) : ~IsCodePattern(fn.patterns[k])
    /\ fn.out.col # PyNone
    /\ IsCodeLabel(fn.out.col)

\* C16 as stated: past the first three tiers, a list in which not every
\* pattern is code-related and not every pattern is name-related returns none.
C16_FallbackOnEveryPattern ==
    (/\ FellThrough
     /\ \E k \in 1..Len(fn.patterns) : ~IsCodePattern(fn.patterns[k])
     /\ \E k \in 1..Len(fn.patterns) : ~IsNamePattern(fn.patterns[k])) =>
        fn.out = Found(PyNone)

---------------------------------------------------------------------------
(* normalize_text called on its own, and then on its own result.           *)

\* the characters of the strings tried: letters in both cases and widths,
\* both spaces, a circled number, and a combining caron (U+030C)
NormAlphabet == {"A", "a", "FW_A", " ", "FW_SP", "J", "caron", "(12)"}

\* the two strings of Test 3 in src/test_app.py: full-width AZ123 and
\* "spaces" between two pairs of blanks
FullWidthAZ123 == <<"FW_A", "FW_Z", "FW_1", "FW_2", "FW_3">>
PaddedSpaces == <<" ", " ", "s", "p", "a", "c", "e", "s", " ", " ">>

NormArgs ==
    {Str(x) : x \in SeqsUpTo(NormAlphabet, MaxLen) \cup {FullWidthAZ123, PaddedSpaces}}
    \cup {NaN, PyNone, PyInt(<<"1">>), Ts(10)}

InitNormalize ==
    /\ file = [kind |-> "absent"]
    /\ NoMatcher
    /\ NoRefresh
    /\ NoFetch
    /\ NoWeb
    /\ \E x \in NormArgs :
          fn = [op |-> "normalize_text", arg |-> x, pc |-> "called",
                once |-> <<>>, twice |-> <<>>]

\* normalize_text(x)
NormalizeOnce ==
    /\ fn.op = "normalize_text"
    /\ fn.pc = "called"
    /\ fn' = [fn EXCEPT !.pc = "once", !.once = normalize_text(fn.arg)]
    /\ UNCHANGED <<main, downloader, fetch, web>>

\* normalize_text(normalize_text(x))
NormalizeTwice ==
    /\ fn.op = "normalize_text"
    /\ fn.pc = "once"
    /\ fn' = [fn EXCEPT !.pc = "twice", !.twice = normalize_text(Str(fn.once))]
    /\ UNCHANGED <<main, downloader, fetch, web>>

NextNormalize == NormalizeOnce \/ NormalizeTwice

SpecNormalize == InitNormalize /\ [][NextNormalize]_vars

\* C17 as stated: normalizing a normalized string changes nothing, full-width
\* AZ123 normalizes to "az123" and "  spaces  " to "spaces", and every
\* non-string argument gives the empty string.
C17_Idempotent ==
    /\ (fn.op = "normalize_text" /\ fn.pc = "twice" /\ fn.arg.t = "str") =>
            fn.twice = fn.once
    /\ (fn.op = "normalize_text" /\ fn.pc # "called") =>
            /\ fn.arg = Str(FullWidthAZ123) => fn.once = <<"a", "z", "1", "2", "3">>
            /\ fn.arg = Str(PaddedSpaces) => fn.once = <<"s", "p", "a", "c", "e", "s">>
            /\ fn.arg.t # "str" => fn.once = <<>>

---------------------------------------------------------------------------
(* _format_result_row called on one pharmacy row and one reference row, as *)
(* line 259 calls it for a row of the output.                              *)

\* a label that _format_result_row leaves out
ColHidden == Str(<<"_", "i", "d">>)

\* the cells tried: text, a number, a date, and the three missing values
FmtCells == {Str(Aspirin), PyInt(<<"1">>), Ts(9), NaN, NaT, PyNone}

FmtPhSchemas == {<<ColPhName>>, <<ColPhName, ColHidden>>}
FmtMhlwSchemas == {<<ColYJ, ColUpdate>>, <<ColHidden, ColUpdate>>}

\* the rows of a schema: one cell per column
FmtRows(cols) == {r \in SeqsUpTo(FmtCells, Len(cols)) : Len(r) = Len(cols)}

InitFormat ==
    /\ file = [kind |-> "absent"]
    /\ NoMatcher
    /\ NoRefresh
    /\ NoFetch
    /\ NoWeb
    /\ \E pcols \in FmtPhSchemas, mcols \in FmtMhlwSchemas :
       \E pcells \in FmtRows(pcols), mcells \in FmtRows(mcols) :
          fn = [op |-> "format_result_row", ph_cols |-> pcols, ph_cells |-> pcells,
                mhlw_cols |-> mcols, mhlw_cells |-> mcells, pc |-> "called", out |-> <<>>]

\* lines 268-288: the call returns the formatted row
FormatReturns ==
    /\ fn.op = "format_result_row"
    /\ fn.pc = "called"
    /\ ~FormatRaises(fn.ph_cols, fn.mhlw_cols, fn.mhlw_cells)
    /\ fn' = [fn EXCEPT !.pc = "returned",
                        !.out = format_result_row(fn.ph_cols, fn.ph_cells,
                                                  fn.mhlw_cols, fn.mhlw_cells)]
    /\ UNCHANGED <<main, downloader, fetch, web>>

\* lines 275, 280, 283: the call raises
FormatFails ==
    /\ fn.op = "format_result_row"
    /\ fn.pc = "called"
    /\ FormatRaises(fn.ph_cols, fn.mhlw_cols, fn.mhlw_cells)
    /\ fn' = [fn EXCEPT !.pc = "raised"]
    /\ UNCHANGED <<main, downloader, fetch, web>>

NextFormat == FormatReturns \/ FormatFails

SpecFormat == InitFormat /\ [][NextFormat]_vars

\* a value as the claim renders it: a date as YYYY-MM-DD, a missing value
\* as the empty string, anything else as its display string
Rendered(v) ==
    IF v.t = "ts" THEN Strftime(v.d)
    ELSE IF ~NotNa(v) THEN <<>>
    ELSE PyStr(v)

\* the items the claim gives one side of an output row
RECURSIVE RenderedItems(_, _, _, _)
RenderedItems(prefix, cols, series, c) ==
    IF c > Len(cols) THEN <<>>
    ELSE IF Head(cols[c].v) = "_" THEN RenderedItems(prefix, cols, series, c + 1)
    ELSE <<Item(prefix, cols[c], Rendered(series[c]))>>
         \o RenderedItems(prefix, cols, series, c + 1)

\* C18 as stated: the formatted row has one pharmacy_ key per pharmacy column
\* and one mhlw_ key per reference column not starting with an underscore,
\* and its values are strings: a date as YYYY-MM-DD, a missing value (a
\* missing date of the reference row included) as the empty string.
C18_RowRendering ==
    (fn.op = "format_result_row" /\ fn.pc # "called") =>
        /\ fn.pc = "returned"
        /\ fn.out = RenderedItems("pharmacy_", fn.ph_cols, PdSeries(fn.ph_cells), 1)
                    \o RenderedItems("mhlw_", fn.mhlw_cols, PdSeries(fn.mhlw_cells), 1)

\* a step that enters match_and_filter: a first call or a call after another
CallStep ==
    /\ pc \in {"idle", "returned", "raised"}
    /\ pc' # "idle"
    /\ vars' # vars

\* what a call starts from: no output rows, no registered codes, counters at
\* zero, and indexes built from the matcher's table alone
FreshLocals ==
    /\ matched_rows' = <<>>
    /\ matched_pharmacy_codes' = {}
    /\ stats' = Stats0(Len(pharmacy_df'.rows))
    /\ pc' = "loop" =>
          /\ code_map' = BuildCodeMap(mhlw_df.tbl,
                                      LastIndex(mhlw_df.tbl.columns, drug_code_column))
          /\ name_map' = BuildNameMap(mhlw_df.tbl,
                                      LastIndex(mhlw_df.tbl.columns, drug_name_column))
          /\ name_prefix_map' =
                BuildNamePrefixMap(mhlw_df.tbl,
                                   LastIndex(mhlw_df.tbl.columns, drug_name_column))

\* a call that repeated the call before it ended as that call ended
SameAsAlone ==
    (prev.kind # "none" /\ prev.days_back = days_back /\ pc \in {"returned", "raised"}) =>
        IF prev.kind = "raised" THEN pc = "raised"
        ELSE pc = "returned" /\ result = prev.result

---------------------------------------------------------------------------
(* Refresh of the reference cache (src/app/mhlw_downloader.py lines        *)
(* 268-288, src/main.py lines 105-129).  Request threads call              *)
(* start_background_refresh, which spawns a thread running _run; the       *)
(* scheduler runs background_update_task, one instance at a time.          *)

InitRefresh ==
    /\ file = [kind |-> "absent"]
    /\ NoMatcher
    /\ fn = NoCall
    /\ NoRefresh
    /\ NoFetch
    /\ NoWeb

\* line 270: the caller enters "with self._refresh_lock"
Acquire(c) ==
    /\ caller[c].pc = "idle"
    /\ refresh_lock = 0
    /\ refresh_lock' = c
    /\ caller' = [caller EXCEPT ![c] = [pc |-> "locked", returned |-> "none"]]
    /\ UNCHANGED <<main, fn, fetch, web, status, worker, job, clock>>

\* lines 271-272: the flag is set, the call returns False
Reject(c) ==
    /\ caller[c].pc = "locked"
    /\ refresh_in_progress
    /\ refresh_lock' = 0
    /\ caller' = [caller EXCEPT ![c] = [pc |-> "idle", returned |-> FALSE]]
    /\ UNCHANGED <<main, fn, fetch, web, status, worker, job, clock>>

\* lines 273-275: the flag is clear; the caller sets it, stamps the start,
\* clears the error and leaves the lock (the clock bound leaves room for the
\* stamp of the finish)
Claim(c) ==
    /\ caller[c].pc = "locked"
    /\ ~refresh_in_progress
    /\ clock + 1 < MaxClock
    /\ refresh_in_progress' = TRUE
    /\ clock' = clock + 1
    /\ last_refresh_started_at' = clock + 1
    /\ last_refresh_error' = "none"
    /\ refresh_lock' = 0
    /\ caller' = [caller EXCEPT ![c].pc = "claimed"]
    /\ UNCHANGED <<main, fn, fetch, web, last_refresh_finished_at, worker, job>>

\* lines 286-288: the thread starts and enters check_and_update (line 279);
\* the call returns True
Spawn(c) ==
    /\ caller[c].pc = "claimed"
    /\ worker' = [worker EXCEPT ![c] = "check_and_update"]
    /\ caller' = [caller EXCEPT ![c] = [pc |-> "idle", returned |-> TRUE]]
    /\ UNCHANGED <<main, fn, fetch, web, status, refresh_lock, job, clock>>

\* line 279: check_and_update returns
WorkerReturns(c) ==
    /\ worker[c] = "check_and_update"
    /\ worker' = [worker EXCEPT ![c] = "finally"]
    /\ UNCHANGED <<main, fn, fetch, web, status, refresh_lock, caller, job, clock>>

\* lines 280-284 without the finally clause: the exception ends the thread
WorkerRaises_NoFinally(c) ==
    /\ worker[c] = "check_and_update"
    /\ last_refresh_error' = "error"
    /\ worker' = [worker EXCEPT ![c] = "none"]
    /\ UNCHANGED <<main, fn, fetch, web, refresh_in_progress, last_refresh_started_at,
                   last_refresh_finished_at, refresh_lock, caller, job, clock>>

\* lines 280-281: check_and_update raises
WorkerRaises(c) ==
    /\ worker[c] = "check_and_update"
    /\ last_refresh_error' = "error"
    /\ worker' = [worker EXCEPT ![c] = "finally"]
    /\ UNCHANGED <<main, fn, fetch, web, refresh_in_progress, last_refresh_started_at,
                   last_refresh_finished_at, refresh_lock, caller, job, clock>>

\* line 283: the finish is stamped
WorkerStamps(c) ==
    /\ worker[c] = "finally"
    /\ clock < MaxClock
    /\ clock' = clock + 1
    /\ last_refresh_finished_at' = clock + 1
    /\ worker' = [worker EXCEPT ![c] = "stamped"]
    /\ UNCHANGED <<main, fn, fetch, web, refresh_in_progress, last_refresh_started_at,
                   last_refresh_error, refresh_lock, caller, job>>

\* line 284: the flag is cleared and the thread ends
WorkerClears(c) ==
    /\ worker[c] = "stamped"
    /\ refresh_in_progress' = FALSE
    /\ worker' = [worker EXCEPT ![c] = "none"]
    /\ UNCHANGED <<main, fn, fetch, web, last_refresh_started_at, last_refresh_finished_at,
                   last_refresh_error, refresh_lock, caller, job, clock>>

\* main.py lines 115-119: the scheduler fires the task, which enters
\* check_and_update
JobStarts ==
    /\ job = "waiting"
    /\ job' = "check_and_update"
    /\ UNCHANGED <<main, fn, fetch, web, status, refresh_lock, caller, worker, clock>>

\* main.py lines 119-122: check_and_update returns or raises; the task ends
JobEnds ==
    /\ job = "check_and_update"
    /\ job' = "waiting"
    /\ UNCHANGED <<main, fn, fetch, web, status, refresh_lock, caller, worker, clock>>

NextRefresh ==
    \/ \E c \in Callers :
          \/ Acquire(c)
          \/ Reject(c)
          \/ Claim(c)
          \/ Spawn(c)
          \/ WorkerReturns(c)
          \/ WorkerRaises(c)
          \/ WorkerStamps(c)
          \/ WorkerClears(c)
    \/ JobStarts
    \/ JobEnds

SpecRefresh == InitRefresh /\ [][NextRefresh]_vars

\* Threads are scheduled: a caller that claimed the refresh goes on to start
\* the thread, check_and_update comes back (every request in it has a
\* timeout, lines 56, 82, 99), and the finally clause runs to its end.
SpecRefreshFair ==
    /\ SpecRefresh
    /\ \A c \in Callers :
          /\ WF_vars(Spawn(c))
          /\ WF_vars(WorkerReturns(c) \/ WorkerRaises(c))
          /\ WF_vars(WorkerStamps(c))
          /\ WF_vars(WorkerClears(c))

\* the executions of check_and_update in progress
InFlight ==
    Cardinality({c \in Callers : worker[c] = "check_and_update"})
    + (IF job = "check_and_update" THEN 1 ELSE 0)

\* C20 as stated: at most one execution of check_and_update is in progress,
\* whether a start_background_refresh or the scheduler's task started it; and
\* a start_background_refresh that tests the flag while a refresh is in
\* progress returns False, starts no thread and changes no status field.
C20_SingleFlight ==
    /\ [](InFlight <= 1)
    /\ [][\A c \in Callers :
            (caller[c].pc = "locked" /\ caller'[c].pc # "locked" /\ InFlight >= 1) =>
                /\ caller'[c] = [pc |-> "idle", returned |-> FALSE]
                /\ status' = status
                /\ worker' = worker]_vars

---------------------------------------------------------------------------
(* check_and_update and _download_excel (src/app/mhlw_downloader.py lines  *)
(* 96-109 and 166-266), with a matcher loading the cache file at any       *)
(* moment (src/app/excel_matcher.py lines 86-90).                          *)

\* what the site may serve: the first file, or one that differs from it in
\* one of the four fields
Remotes ==
    {Remote0, [Remote0 EXCEPT !.etag = 2], [Remote0 EXCEPT !.last_modified = 2],
     [Remote0 EXCEPT !.content_length = 2], [Remote0 EXCEPT !.url = 2]}

\* the dict _get_remote_metadata returns on success (lines 86-90)
RemoteMeta(r) ==
    [etag |-> r.etag, last_modified |-> r.last_modified, content_length |-> r.content_length]

\* _get_remote_metadata returned None
NoRemoteMeta == [etag |-> 0, last_modified |-> 0, content_length |-> 0]

\* the metadata stored after a download (lines 233-239); it also names the
\* content of the file downloaded
MetaOf(rm, url) ==
    [etag |-> rm.etag, last_modified |-> rm.last_modified,
     content_length |-> rm.content_length, url |-> url]

\* MHLW_EXCEL_PATH.exists()
Exists(f) == f.state # "absent"

\* lines 222-229 without the content-length comparison
CacheNeedsUpdate_NoLength(force, exists, m, rm, url) ==
    \/ force
    \/ ~exists
    \/ m.etag # rm.etag
    \/ m.last_modified # rm.last_modified
    \/ m.url # url

\* lines 222-229: cache_needs_update
CacheNeedsUpdate(force, exists, m, rm, url) ==
    \/ force
    \/ ~exists
    \/ m.etag # rm.etag
    \/ m.last_modified # rm.last_modified
    \/ m.content_length # rm.content_length
    \/ m.url # url

InitDownload ==
    /\ file = [kind |-> "absent"]
    /\ NoMatcher
    /\ fn = NoCall
    /\ NoRefresh
    /\ NoWeb
    /\ \E start \in {<<Absent, NoMeta>>, <<Complete(Remote0), Remote0>>,
                     <<Complete(Remote0), NoMeta>>} :
          cache = start[1] /\ meta = start[2]
    /\ excel_url = 0
    /\ remote \in Remotes
    /\ cu = CuIdle
    /\ reader = [state |-> "none"]
    /\ last = NoLast

\* the call returns: result holds success, cached and which message was set
CuReturns(kind, success, cached) ==
    cu' = [cu EXCEPT !.pc = "returned",
                     !.result = [kind |-> kind, success |-> success, cached |-> cached]]

\* lines 171-199: the result dict is set up and the download link resolved,
\* from the stored metadata, from the call before, or by scraping the page
CheckAndUpdate ==
    /\ cu.pc = "idle"
    /\ \E force \in BOOLEAN, scraped \in {0, remote.url} :
       \E url \in {IF meta.url # 0 THEN meta.url
                   ELSE IF excel_url # 0 THEN excel_url ELSE scraped} :
          /\ excel_url' = url
          /\ cu' = [pc |-> IF url = 0 THEN "returned" ELSE "head",
                    force |-> force,
                    file_exists |-> Exists(cache),
                    remote_meta |-> NoRemoteMeta,
                    attempted |-> FALSE,
                    before |-> [cache |-> cache, meta |-> meta],
                    result |-> IF url = 0
                               THEN [kind |-> "no link", success |-> Exists(cache),
                                     cached |-> Exists(cache)]
                               ELSE [kind |-> "none"]]
    /\ UNCHANGED <<main, fn, downloader, web, cache, meta, remote, reader, last>>

\* lines 202-219: the HEAD request, retried once on a freshly scraped link
\* when the stored link failed
GetRemoteMetadata ==
    /\ cu.pc = "head"
    /\ \E ok1 \in BOOLEAN, scraped \in {0, remote.url}, ok2 \in BOOLEAN :
       \E first \in {IF ok1 THEN RemoteMeta(remote) ELSE NoRemoteMeta} :
       \E moved \in {first = NoRemoteMeta /\ meta.url # 0 /\ excel_url = meta.url
                     /\ scraped # 0 /\ scraped # excel_url} :
       \E rm \in {IF first # NoRemoteMeta THEN first
                  ELSE IF moved /\ ok2 THEN RemoteMeta(remote) ELSE NoRemoteMeta} :
          /\ excel_url' = IF moved THEN scraped ELSE excel_url
          /\ IF rm = NoRemoteMeta
             THEN CuReturns("no metadata", cu.file_exists, cu.file_exists)
             ELSE cu' = [cu EXCEPT !.pc = "decide", !.remote_meta = rm]
    /\ UNCHANGED <<main, fn, downloader, web, cache, meta, remote, reader, last>>

\* lines 222-231 and 258-264: download, or report the cache as current
Decide ==
    /\ cu.pc = "decide"
    /\ IF CacheNeedsUpdate(cu.force, Exists(cache), meta, cu.remote_meta, excel_url)
       THEN cu' = [cu EXCEPT !.pc = "get", !.attempted = TRUE]
       ELSE CuReturns("current", TRUE, TRUE)
    /\ UNCHANGED <<main, fn, downloader, web, cache, meta, excel_url, remote, reader, last>>

\* lines 98-102 and 107-109: the GET fails before the file is opened
DownloadRefused ==
    /\ cu.pc = "get"
    /\ cu' = [cu EXCEPT !.pc = "failed"]
    /\ UNCHANGED <<main, fn, downloader, web, cache, meta, excel_url, remote, reader, last>>

\* line 103: open(MHLW_EXCEL_PATH, "wb") empties the cache file in place
DownloadOpens ==
    /\ cu.pc = "get"
    /\ cache' = Partial(MetaOf(cu.remote_meta, excel_url), 0)
    /\ cu' = [cu EXCEPT !.pc = "writing"]
    /\ UNCHANGED <<main, fn, downloader, web, meta, excel_url, remote, reader, last>>

\* lines 104-105: one chunk is written
DownloadWrites ==
    /\ cu.pc = "writing"
    /\ cache.state = "partial"
    /\ cache.written < MaxChunks
    /\ cache' = [cache EXCEPT !.written = @ + 1]
    /\ UNCHANGED <<main, fn, downloader, web, meta, excel_url, remote, cu, reader, last>>

\* lines 104 and 107-109: the transfer breaks; what was written stays
DownloadBreaks ==
    /\ cu.pc = "writing"
    /\ cache.state = "partial"
    /\ cache.written < MaxChunks
    /\ cu' = [cu EXCEPT !.pc = "failed"]
    /\ UNCHANGED <<main, fn, downloader, web, cache, meta, excel_url, remote, reader, last>>

\* lines 106 and 232-246: the last chunk is in, the file is closed, the
\* metadata replaced and saved
DownloadCompletes ==
    /\ cu.pc = "writing"
    /\ cache.state = "partial"
    /\ cache.written = MaxChunks
    /\ cache' = Complete(cache.v)
    /\ meta' = MetaOf(cu.remote_meta, excel_url)
    /\ CuReturns("updated", TRUE, FALSE)
    /\ UNCHANGED <<main, fn, downloader, web, excel_url, remote, reader, last>>

\* lines 247-257: _download_excel returned False
DownloadFailed ==
    /\ cu.pc = "failed"
    /\ CuReturns("download failed", cu.file_exists, cu.file_exists)
    /\ UNCHANGED <<main, fn, downloader, web, cache, meta, excel_url, remote, reader, last>>

\* line 266: the caller has the result; the downloader is kept
CuEnds ==
    /\ cu.pc = "returned"
    /\ last' = IF cu.result.kind = "updated"
               THEN [kind |-> "downloaded", url |-> excel_url] ELSE NoLast
    /\ cu' = CuIdle
    /\ UNCHANGED <<main, fn, downloader, web, cache, meta, excel_url, remote, reader>>

\* the site publishes another file between two checks
Publish ==
    /\ cu.pc = "idle"
    /\ remote' \in Remotes \ {remote}
    /\ last' = NoLast
    /\ UNCHANGED <<main, fn, downloader, web, cache, meta, excel_url, cu, reader>>

\* src/app/excel_matcher.py lines 86-90: a matcher reads the cache file
MatcherLoads ==
    /\ reader' = IF cache.state = "partial" THEN [state |-> "partial"] ELSE cache
    /\ UNCHANGED <<main, fn, downloader, web, cache, meta, excel_url, remote, cu, last>>

NextDownload ==
    \/ CheckAndUpdate
    \/ GetRemoteMetadata
    \/ Decide
    \/ DownloadRefused
    \/ DownloadOpens
    \/ DownloadWrites
    \/ DownloadBreaks
    \/ DownloadCompletes
    \/ DownloadFailed
    \/ CuEnds
    \/ Publish
    \/ MatcherLoads

SpecDownload == InitDownload /\ [][NextDownload]_vars

\* C21 as stated: whenever a matcher loads the cache file while a download
\* may be running, it reads a complete file (the previous one or the new
\* one), never a partly written one.
C21_AtomicReplace == reader.state # "partial"

\* the call got remote metadata and went on to the decision (lines 222-264)
Decided ==
    cu.pc = "returned" /\ cu.result.kind \in {"updated", "download failed", "current"}

\* one of the four compared fields of the remote differs from what is stored
Differs(m, rm, url) ==
    \/ m.etag # rm.etag
    \/ m.last_modified # rm.last_modified
    \/ m.content_length # rm.content_length
    \/ m.url # url

\* C23: when remote metadata is obtained, check_and_update attempts a
\* download if and only if force is set, the cache file is missing or one of
\* etag, last-modified, content-length, URL differs from the stored metadata;
\* when it attempts none, file and metadata are as before the call and the
\* result is success with cached = true; and a non-forced call that follows a
\* successful download, with the site unchanged and answering on the same
\* link, attempts no download.
C23_DownloadsIffStale ==
    Decided =>
        /\ cu.attempted <=>
              (cu.force \/ cu.before.cache = Absent
                 \/ Differs(cu.before.meta, cu.remote_meta, excel_url))
        /\ ~cu.attempted =>
              /\ cache = cu.before.cache
              /\ meta = cu.before.meta
              /\ cu.result = [kind |-> "current", success |-> TRUE, cached |-> TRUE]
        /\ (last.kind = "downloaded" /\ ~cu.force /\ excel_url = last.url) =>
              ~cu.attempted

\* a non-forced call right after a download found the cache current
C23_Witness ==
    /\ Decided
    /\ last.kind = "downloaded"
    /\ ~cu.force
    /\ cu.result.kind = "current"
    /\ cache = cu.before.cache

\* C28 as stated: when a download attempt fails, also partway through the
\* transfer, a cache file that was there is the complete file it was and
\* the stored metadata is unchanged, so a result with cached = true describes
\* a complete file on disk.
C28_FailedDownloadKeepsCache ==
    (cu.pc = "returned" /\ cu.result.kind = "download failed"
        /\ cu.before.cache.state = "complete") =>
        /\ cache = cu.before.cache
        /\ meta = cu.before.meta
        /\ cu.result.cached => cache.state = "complete"

\* the refresh has ended: flag reset, finish stamped after the start
RefreshEnded ==
    /\ ~refresh_in_progress
    /\ last_refresh_started_at # 0
    /\ last_refresh_finished_at > last_refresh_started_at

---------------------------------------------------------------------------
(* /check, /check_async and /check_status (src/main.py lines 211-283 and  *)
(* 448-539). _process_excel_content runs in a thread of the default       *)
(* executor; the coroutine waits for it under asyncio.wait_for. The limit *)
(* MAX_PROCESS_SECONDS is the moment CheckTimesOut or RunJobTimesOut      *)
(* fires: any moment at which the thread has not come back.               *)

InitWeb ==
    /\ file = [kind |-> "absent"]
    /\ NoMatcher
    /\ fn = NoCall
    /\ NoRefresh
    /\ NoFetch
    /\ NoWeb

\* the JSONResponse of /check
Responded(code, success, thread) ==
    [pc |-> "responded", thread |-> thread, code |-> code, success |-> success]

\* lines 227-245: the upload exceeds MAX_UPLOAD_MB
CheckTooLarge ==
    /\ req.pc = "idle"
    /\ req' = Responded(413, FALSE, "none")
    /\ UNCHANGED <<main, fn, downloader, fetch, jobs, tasks, seen>>

\* lines 247-258: the upload is read, the pipeline is handed to a thread and
\* awaited
Check ==
    /\ req.pc = "idle"
    /\ req' = [pc |-> "waiting", thread |-> "running"]
    /\ UNCHANGED <<main, fn, downloader, fetch, jobs, tasks, seen>>

\* lines 31-74: _process_excel_content comes back, with a result or an
\* exception, whether or not anything still waits for it
PipelineEnds ==
    /\ req.thread = "running"
    /\ \E outcome \in {"returned", "raised"} :
          req' = [req EXCEPT !.thread = outcome]
    /\ UNCHANGED <<main, fn, downloader, fetch, jobs, tasks, seen>>

\* lines 269-273 and 274-283: the result is sent, or the 400 of the outer
\* except clause
CheckReturns ==
    /\ req.pc = "waiting"
    /\ req.thread \in {"returned", "raised"}
    /\ req' = IF req.thread = "returned"
              THEN Responded(200, TRUE, req.thread)
              ELSE Responded(400, FALSE, req.thread)
    /\ UNCHANGED <<main, fn, downloader, fetch, jobs, tasks, seen>>

\* lines 259-268: wait_for gives up; the await is cancelled, the thread is
\* not (a running thread cannot be), and the 504 is sent
CheckTimesOut ==
    /\ req.pc = "waiting"
    /\ req.thread = "running"
    /\ req' = Responded(504, FALSE, req.thread)
    /\ UNCHANGED <<main, fn, downloader, fetch, jobs, tasks, seen>>

\* the response is delivered and the thread gone; the next request may come
CheckDone ==
    /\ req.pc = "responded"
    /\ req.thread # "running"
    /\ req' = [pc |-> "idle", thread |-> "none"]
    /\ UNCHANGED <<main, fn, downloader, fetch, jobs, tasks, seen>>

\* lines 482-484 and 507-509: the entry is created, the task started
CheckAsync(j) ==
    /\ jobs[j] = NoJob
    /\ \A i \in JobIds : i < j => jobs[i] # NoJob
    /\ jobs' = [jobs EXCEPT ![j] = [status |-> "running", result |-> "None",
                                    error |-> "None"]]
    /\ tasks' = [tasks EXCEPT ![j] = [pc |-> "waiting", thread |-> "running"]]
    /\ UNCHANGED <<main, fn, downloader, fetch, req, seen>>

\* lines 31-74 for a job, with a thread that stores the result itself
JobPipelineEnds_Stores(j) ==
    /\ tasks[j].thread = "running"
    /\ \E outcome \in {"returned", "raised"} :
          tasks' = [tasks EXCEPT ![j].thread = outcome]
    /\ jobs' = [jobs EXCEPT ![j] = [status |-> "done", result |-> "result",
                                    error |-> "None"]]
    /\ UNCHANGED <<main, fn, downloader, fetch, req, seen>>

\* lines 31-74 for a job: the thread comes back; it writes nothing
JobPipelineEnds(j) ==
    /\ tasks[j].thread = "running"
    /\ \E outcome \in {"returned", "raised"} :
          tasks' = [tasks EXCEPT ![j].thread = outcome]
    /\ UNCHANGED <<main, fn, downloader, fetch, req, jobs, seen>>

\* lines 492-495: _run_job got the result
RunJobDone(j) ==
    /\ tasks[j].pc = "waiting"
    /\ tasks[j].thread = "returned"
    /\ jobs' = [jobs EXCEPT ![j] = [status |-> "done", result |-> "result",
                                    error |-> "None"]]
    /\ tasks' = [tasks EXCEPT ![j].pc = "finished"]
    /\ UNCHANGED <<main, fn, downloader, fetch, req, seen>>

\* lines 503-505: the pipeline raised
RunJobFails(j) ==
    /\ tasks[j].pc = "waiting"
    /\ tasks[j].thread = "raised"
    /\ jobs' = [jobs EXCEPT ![j] = [status |-> "error", result |-> "None",
                                    error |-> "raised"]]
    /\ tasks' = [tasks EXCEPT ![j].pc = "finished"]
    /\ UNCHANGED <<main, fn, downloader, fetch, req, seen>>

\* lines 496-502: wait_for gave up; the thread runs on
RunJobTimesOut(j) ==
    /\ tasks[j].pc = "waiting"
    /\ tasks[j].thread = "running"
    /\ jobs' = [jobs EXCEPT ![j] = [status |-> "error", result |-> "None",
                                    error |-> "timeout"]]
    /\ tasks' = [tasks EXCEPT ![j].pc = "finished"]
    /\ UNCHANGED <<main, fn, downloader, fetch, req, seen>>

\* lines 524-539: what check_status answers for the entry
StatusResponse(entry) ==
    IF entry = NoJob THEN [code |-> 404]
    ELSE IF entry.status = "running" THEN [code |-> 200, status |-> "running"]
    ELSE IF entry.status = "error" THEN [code |-> 500, status |-> "error", message |-> entry.error]
    ELSE [code |-> 200, body |-> entry.result]

\* lines 512-539: a client polls the job
CheckStatus(j) ==
    /\ seen' = [seen EXCEPT ![j] = <<StatusResponse(jobs[j])>>]
    /\ UNCHANGED <<main, fn, downloader, fetch, req, jobs, tasks>>

NextWeb ==
    \/ CheckTooLarge
    \/ Check
    \/ PipelineEnds
    \/ CheckReturns
    \/ CheckTimesOut
    \/ CheckDone
    \/ \E j \in JobIds :
          \/ CheckAsync(j)
          \/ JobPipelineEnds(j)
          \/ RunJobDone(j)
          \/ RunJobFails(j)
          \/ RunJobTimesOut(j)
          \/ CheckStatus(j)

SpecWeb == InitWeb /\ [][NextWeb]_vars

\* C22 as stated: when /check answers with the timeout error (success false,
\* status 504), the pipeline has been cancelled: its thread no longer runs.
C22_TimeoutCancelsPipeline ==
    (req.pc = "responded" /\ req.code = 504) =>
        (~req.success /\ req.thread # "running")

---------------------------------------------------------------------------
(* The order and the counts of the output of match_and_filter.             *)

\* the pharmacy rows of the call that contributed an output row, in the
\* order of their output rows
EmittedRows == SelectSeq([k \in 1..Len(log) |-> k], LAMBDA k : log[k].emitted)

\* the update date shown in the output row of pharmacy row k: that of its
\* first match (line 256)
ShownDate(k) == UpdateDate(log[k].matches[1])

\* C24 as stated: the output rows are in descending order of update date
\* (where two output rows both show a date, the earlier one in the output
\* shows the later or the same date), whatever the order of the pharmacy rows.
C24_SortedByUpdateDate ==
    (pc = "returned" /\ result.success /\ Truthy(update_date_column)) =>
        \A a, b \in 1..Len(EmittedRows) :
            (a < b /\ ShownDate(EmittedRows[a]).t = "ts" /\ ShownDate(EmittedRows[b]).t = "ts")
               => ShownDate(EmittedRows[a]).d >= ShownDate(EmittedRows[b]).d

\* C25: a result with success = true has recent_updates <= matched_rows <=
\* pharmacy_rows, as many rows in data as recent_updates, and the message
\* "Matched N drugs with recent updates" with N that number.
C25_CountsAgree ==
    (pc = "returned" /\ result.success) =>
        /\ result.stats.recent_updates <= result.stats.matched_rows
        /\ result.stats.matched_rows <= result.stats.pharmacy_rows
        /\ result.stats.pharmacy_rows = Len(pharmacy_df.rows)
        /\ Len(result.data) = result.stats.recent_updates
        /\ result.message = "Matched " \o ToString(result.stats.recent_updates)
                            \o " drugs with recent updates"

\* a successful result with a matched row that was not recent beside one
\* that was
C25_Witness ==
    /\ pc = "returned"
    /\ result.success
    /\ result.stats.recent_updates >= 1
    /\ result.stats.recent_updates < result.stats.matched_rows
    /\ Len(result.data) = 1

---------------------------------------------------------------------------
(* match_and_filter on uploads that repeat a pharmacy code the reference   *)
(* table does not know, so that rows of one code match by name and can     *)
(* differ in recency.                                                      *)

DedupRefRows ==
    {<<Str(<<"A", "1">>), Str(Aspirin), Ts(9)>>, <<Str(<<"B", "2">>), Str(Ibu), Ts(10)>>}

DedupFiles ==
    {[kind |-> "xlsx", columns |-> <<ColYJ, ColHinmei, ColUpdate>>, rows |-> r] :
        r \in SeqsUpTo(DedupRefRows, MaxRefRows)}

DedupPhRows ==
    {<<Str(<<"c", "3">>), Str(Aspirin)>>, <<Str(<<"c", "3">>), Str(Ibu)>>,
     <<Str(<<"a", "1">>), Str(Aspirin)>>}

InitDedup ==
    /\ file \in DedupFiles
    /\ NoMatcher
    /\ NoRefresh
    /\ NoFetch
    /\ NoWeb
    /\ fn = NoCall

\* a call of match_and_filter on an idle matcher with such an upload
CallWithRepeatedCode ==
    /\ pc = "idle"
    /\ Enter({[cols |-> <<ColPhCode, ColPhName>>, rows |-> rows, d |-> d] :
                rows \in SeqsUpTo(DedupPhRows, MaxPhRows), d \in DaysBackValues})
    /\ prev' = NoPrev
    /\ UNCHANGED <<downloader, fetch, web, fn, file, matcher>>

NextDedup ==
    \/ Construct
    \/ CallWithRepeatedCode
    \/ ProcessRow
    \/ Return
    \/ Discard

SpecDedup == InitDedup /\ [][NextDedup]_vars

\* C30 as stated: a pharmacy row with a recent match is dropped as a
\* duplicate only if an earlier row of the call with the same code was
\* emitted; an earlier row with that code that matched without a recent
\* update does not make it be dropped.
C30_DedupOnlyAfterEmitted ==
    \A k \in 1..Len(log) :
        (/\ log[k].outcome = "duplicate"
         /\ HasRecent(mhlw_df.tbl, update_date_column, log[k].matches, cutoff_date)) =>
            \E i \in 1..(k - 1) : log[i].key = log[k].key /\ log[i].emitted

\* C26 as stated: the rows of data are those of the emitted pharmacy rows in
\* the order of the upload (data is a subsequence of the pharmacy table), and
\* of the rows sharing a code the one kept is the earliest that matched: no
\* emitted row has an earlier matching row of the same normalized code.
C26_InputOrderKept ==
    pc \in {"loop", "returned"} =>
        /\ Len(matched_rows) = Len(EmittedRows)
        /\ \A a \in 1..Len(EmittedRows) :
              \E k \in {EmittedRows[a]} :
                 matched_rows[a] =
                    format_result_row(pharmacy_df.columns, pharmacy_df.rows[k],
                                      mhlw_df.tbl.columns,
                                      mhlw_df.tbl.rows[log[k].matches[1]])
        /\ \A k \in 1..Len(log) :
              (log[k].emitted /\ RowCode(k) # <<>>) =>
                 \A i \in 1..(k - 1) :
                    ~(RowCode(i) = RowCode(k) /\ log[i].matches # <<>>)

=============================================================================
